---- MODULE Spec2Model ----
(***************************************************************************)
(* Table reconciliation of genie/process_functions.py: updateDatabase and  *)
(* its helpers _get_left_diff_df, _get_left_union_df, _append_rows,        *)
(* _delete_rows and _update_rows.                                          *)
(*                                                                         *)
(* Text is a sequence of one-character strings, so that str.split and     *)
(* ' '.join are computed character by character.  A cell value is a record *)
(* [t, s]: its Python type and its str() rendering.  A data frame is a     *)
(* record [columns, index, rows]: the column labels in order, the index    *)
(* labels in row order, and one function column -> value per row.          *)
(***************************************************************************)
EXTENDS Integers, Sequences, FiniteSets, TLC

\* ------------------------------------------------------------------ bounds

\* Most rows of the store and of the new dataset in the reconcile runs.
MaxRows == 2

\* Most rows of either frame in the runs that draw missing values.
MaxNullRows == 1

\* Most rows of either frame in the runs that call one extraction function.
MaxHelperRows == 2

\* Most rows of either frame in the runs that draw the column layouts.
MaxSchemaRows == 1

\* Most rows of either frame in the runs that call the two diff helpers.
MaxDiffRows == 2

\* Longest string handed to removeStringFloat.
MaxTextLen == 5
\* Rows of the table, and of the new data, when two runs of updateData race.
MaxRaceRows == 1
MaxRaceNew == 2
\* Invocations one caller makes in a row, and the rows of either frame then.
MaxRuns == 3
MaxApplyRows == 2

\* Most rows of either frame in the runs with two key columns.
MaxKeyRows == 2

\* Most file groups in ancillary_files.
MaxAncillary == 2

\* Most rows of either frame in the runs that draw floating-point numbers.
MaxFloatRows == 1

\* Most rows of either frame of either invocation in the runs of two
\* invocations.
MaxPeerRows == 1

\* ------------------------------------------------------------------- text

DigitChar == <<"0", "1", "2", "3", "4", "5", "6", "7", "8", "9">>

\* str(n) of a natural number.
RECURSIVE IntStr(_)
IntStr(n) ==
    IF n < 10 THEN <<DigitChar[n + 1]>>
    ELSE IntStr(n \div 10) \o <<DigitChar[(n % 10) + 1]>>

\* Position of the first d in s, 0 when there is none.
RECURSIVE FindChar(_, _, _)
FindChar(s, d, i) ==
    IF i > Len(s) THEN 0
    ELSE IF s[i] = d THEN i
    ELSE FindChar(s, d, i + 1)

\* s.split(d) for a one-character delimiter d.
RECURSIVE pysplit(_, _)
pysplit(s, d) ==
    LET p == FindChar(s, d, 1) IN
    IF p = 0 THEN <<s>>
    ELSE <<SubSeq(s, 1, p - 1)>> \o pysplit(SubSeq(s, p + 1, Len(s)), d)

\* sep.join(parts).
RECURSIVE pyjoin(_, _)
pyjoin(sep, parts) ==
    IF Len(parts) = 0 THEN <<>>
    ELSE IF Len(parts) = 1 THEN parts[1]
    ELSE parts[1] \o sep \o pyjoin(sep, Tail(parts))

\* s.replace(old, new): every occurrence of old, found from the left and
\* never overlapping, becomes new.
RECURSIVE pyreplace(_, _, _)
pyreplace(s, old, new) ==
    IF Len(s) < Len(old) THEN s
    ELSE IF SubSeq(s, 1, Len(old)) = old
         THEN new \o pyreplace(SubSeq(s, Len(old) + 1, Len(s)), old, new)
    ELSE <<s[1]>> \o pyreplace(Tail(s), old, new)

\* removeStringFloat with its first replace alone.
removeStringFloat_TabOnly(string) ==
    pyreplace(string, <<".", "0", "\t">>, <<"\t">>)

\* removeStringFloat (lines 220-224): ".0" goes before a tab, then before a
\* newline.
removeStringFloat(string) ==
    pyreplace(pyreplace(string, <<".", "0", "\t">>, <<"\t">>),
              <<".", "0", "\n">>, <<"\n">>)

\* ----------------------------------------------------------------- values

StrVal(s) == [t |-> "str", s |-> s]
IntVal(n) == [t |-> "int", s |-> IntStr(n)]
\* A float with an integral value: str(1.0) is "1.0".
FloatVal(n) == [t |-> "float", s |-> IntStr(n) \o <<".", "0">>]
\* float("nan") / None: a missing value.
NaN == [t |-> "nan", s |-> <<"n", "a", "n">>]
EmptyStr == StrVal(<<>>)

isnull(v) == v.t = "nan"

\* Python's == on two cell values: numbers compare by value whatever their
\* type, text compares with text only, and nan equals nothing.
PyEq(a, b) ==
    IF isnull(a) \/ isnull(b) THEN FALSE
    ELSE IF a.t = b.t THEN a.s = b.s
    ELSE IF a.t = "int" /\ b.t = "float" THEN b.s = a.s \o <<".", "0">>
    ELSE IF a.t = "float" /\ b.t = "int" THEN a.s = b.s \o <<".", "0">>
    ELSE FALSE

\* str(v), as applymap(str) applies it to a cell.
pystr(v) == StrVal(v.s)

\* ----------------------------------------------------------------- frames

Range(s) == {s[i] : i \in DOMAIN s}

\* pd.DataFrame(): no column, no row.
EmptyFrame == [columns |-> <<>>, index |-> <<>>, rows |-> <<>>]

empty(df) == Len(df.rows) = 0 \/ Len(df.columns) = 0

\* The positions from i on at which a boolean mask is TRUE, in order.
RECURSIVE PositionsFrom(_, _)
PositionsFrom(mask, i) ==
    IF i > Len(mask) THEN <<>>
    ELSE (IF mask[i] THEN <<i>> ELSE <<>>) \o PositionsFrom(mask, i + 1)

Positions(mask) == PositionsFrom(mask, 1)

\* df[mask]: the rows at the kept positions, each with its index label.
TakeRows(df, pos) ==
    [df EXCEPT !.index = [j \in DOMAIN pos |-> df.index[pos[j]]],
               !.rows = [j \in DOMAIN pos |-> df.rows[pos[j]]]]

\* fillna that leaves the missing values in place.
fillna_Skipped(df) == df

\* df.fillna(""): every missing value becomes the empty string.
fillna(df) ==
    [df EXCEPT !.rows = [i \in DOMAIN df.rows |->
        [c \in DOMAIN df.rows[i] |->
            IF isnull(df.rows[i][c]) THEN EmptyStr ELSE df.rows[i][c]]]]

\* del df[col]
DelColumn(df, col) ==
    LET keep == Positions([i \in DOMAIN df.columns |-> df.columns[i] # col]) IN
    [df EXCEPT !.columns = [j \in DOMAIN keep |-> df.columns[keep[j]]],
               !.rows = [i \in DOMAIN df.rows |->
                   [c \in DOMAIN df.rows[i] \ {col} |-> df.rows[i][c]]]]

\* reset_index left out: the rows keep the index labels they had.
reset_index_Skipped(df) == df

\* df.reset_index(drop=True): the index becomes 0 .. n-1.
reset_index(df) == [df EXCEPT !.index = [i \in DOMAIN df.rows |-> i - 1]]

\* The values of a column, as a set (what isin tests membership in).
ColumnValues(df, col) == {df.rows[i][col] : i \in DOMAIN df.rows}

\* Series.isin: membership by ==, except that missing values match each other.
isin(v, vals) == \E w \in vals : PyEq(v, w) \/ (isnull(v) /\ isnull(w))

\* A raised exception, as the value of the call that raised it.
Raise(kind) == [raise |-> kind]
Raised(x) == "raise" \in DOMAIN x

\* isinstance(df, pd.DataFrame)
IsDataFrame(df) == "columns" \in DOMAIN df

\* df[cols]: the named columns in the order asked for.
SelectColumns(df, cols) ==
    [df EXCEPT !.columns = cols,
               !.rows = [i \in DOMAIN df.rows |->
                   [c \in Range(cols) |-> df.rows[i][c]]]]

\* df[col] = values (a new column goes last, an existing one keeps its place).
SetColumn(df, col, values) ==
    [df EXCEPT !.columns = IF col \in Range(df.columns) THEN df.columns
                           ELSE Append(df.columns, col),
               !.rows = [i \in DOMAIN df.rows |->
                   [c \in DOMAIN df.rows[i] \cup {col} |->
                       IF c = col THEN values[i] ELSE df.rows[i][c]]]]

\* df.index = df[col]
IndexByColumn(df, col) ==
    [df EXCEPT !.index = [i \in DOMAIN df.rows |-> df.rows[i][col]]]

\* duplicated(keep="last"): the last row of every index label.
DropDuplicatedIndex_KeepLast(df) ==
    TakeRows(df, Positions([i \in DOMAIN df.rows |->
        ~\E j \in (i + 1)..Len(df.rows) : df.index[j] = df.index[i]]))

\* df[~df.index.duplicated()]: the first row of every index label.
DropDuplicatedIndex(df) ==
    TakeRows(df, Positions([i \in DOMAIN df.rows |->
        ~\E j \in 1..(i - 1) : df.index[j] = df.index[i]]))

\* df.loc[labels]: for each label in turn, the rows that carry it.
RECURSIVE LocPositions(_, _, _)
LocPositions(df, labels, k) ==
    IF k > Len(labels) THEN <<>>
    ELSE Positions([i \in DOMAIN df.rows |-> df.index[i] = labels[k]])
         \o LocPositions(df, labels, k + 1)

loc(df, labels) ==
    IF \E k \in DOMAIN labels : labels[k] \notin Range(df.index)
    THEN Raise("KeyError")
    ELSE TakeRows(df, LocPositions(df, labels, 1))

\* ---------------------------------------------------------- diff helpers

\* _check_valid_df: TRUE when it returns, FALSE when it raises ValueError.
_check_valid_df(df, checkby) ==
    IsDataFrame(df) /\ checkby \in Range(df.columns)

\* The ValueError _check_valid_df raises for df: its message, and the column
\* the message names (line 344 names none, line 346 formats checkby in).
ValidationError(df, checkby) ==
    IF ~IsDataFrame(df)
    THEN [raise |-> "ValueError", message |-> "Must pass in pandas dataframes",
          names |-> {}]
    ELSE [raise |-> "ValueError",
          message |-> "{} column must exist in both dataframes",
          names |-> {checkby}]

\* _get_left_diff_df without the negation of the mask.
_get_left_diff_df_NoNegation(left, right, checkby) ==
    IF ~_check_valid_df(left, checkby) THEN Raise("ValueError")
    ELSE IF ~_check_valid_df(right, checkby) THEN Raise("ValueError")
    ELSE TakeRows(left, Positions([i \in DOMAIN left.rows |->
            isin(left.rows[i][checkby], ColumnValues(right, checkby))]))

_get_left_diff_df(left, right, checkby) ==
    IF ~_check_valid_df(left, checkby) THEN ValidationError(left, checkby)
    ELSE IF ~_check_valid_df(right, checkby) THEN ValidationError(right, checkby)
    ELSE TakeRows(left, Positions([i \in DOMAIN left.rows |->
            ~isin(left.rows[i][checkby], ColumnValues(right, checkby))]))

\* _get_left_union_df taking every row of left but the last whose key is
\* missing from right.
_get_left_union_df_GreedyMask(left, right, checkby) ==
    IF ~_check_valid_df(left, checkby) THEN ValidationError(left, checkby)
    ELSE IF ~_check_valid_df(right, checkby) THEN ValidationError(right, checkby)
    ELSE TakeRows(left, Positions([i \in DOMAIN left.rows |->
            \/ isin(left.rows[i][checkby], ColumnValues(right, checkby))
            \/ i < Len(left.rows)]))

\* _get_left_union_df without its second validation: an invalid right
\* argument fails in right[checkby] instead.
_get_left_union_df_LeftChecked(left, right, checkby) ==
    IF ~_check_valid_df(left, checkby) THEN ValidationError(left, checkby)
    ELSE IF ~_check_valid_df(right, checkby) THEN Raise("KeyError")
    ELSE TakeRows(left, Positions([i \in DOMAIN left.rows |->
            isin(left.rows[i][checkby], ColumnValues(right, checkby))]))

_get_left_union_df(left, right, checkby) ==
    IF ~_check_valid_df(left, checkby) THEN ValidationError(left, checkby)
    ELSE IF ~_check_valid_df(right, checkby) THEN ValidationError(right, checkby)
    ELSE TakeRows(left, Positions([i \in DOMAIN left.rows |->
            isin(left.rows[i][checkby], ColumnValues(right, checkby))]))

\* The first part of the locator taken twice.
RowIdVersion_SamePart(rowid) ==
    LET parts == pysplit(rowid, "_") IN <<parts[1], parts[1]>>

\* [rowid.split("_")[0], rowid.split("_")[1]]
RowIdVersion(rowid) ==
    LET parts == pysplit(rowid, "_") IN <<parts[1], parts[2]>>

\* The frame of pairs with the first locator's parts in every row.
RowIdVersionFrame_FirstLocator(rowids) ==
    [columns |-> <<0, 1>>,
     index |-> [i \in DOMAIN rowids |-> i - 1],
     rows |-> [i \in DOMAIN rowids |->
                  [c \in {0, 1} |-> StrVal(RowIdVersion(rowids[1])[c + 1])]]]

\* pd.DataFrame([[id, version], ...]): the columns are 0 and 1.
RowIdVersionFrame(rowids) ==
    [columns |-> <<0, 1>>,
     index |-> [i \in DOMAIN rowids |-> i - 1],
     rows |-> [i \in DOMAIN rowids |->
                  [c \in {0, 1} |-> StrVal(RowIdVersion(rowids[i])[c + 1])]]]

\* _append_rows taking the rows whose key the store holds.
_append_rows_Union(new_datasetdf, databasedf, checkby) ==
    LET db_filled == fillna(databasedf)
        new_filled == fillna(new_datasetdf)
        appenddf == _get_left_union_df(new_filled, db_filled, checkby)
    IN  IF Raised(appenddf) THEN appenddf
        ELSE reset_index(DelColumn(appenddf, checkby))

_append_rows(new_datasetdf, databasedf, checkby) ==
    LET db_filled == fillna(databasedf)
        new_filled == fillna(new_datasetdf)
        appenddf == _get_left_diff_df(new_filled, db_filled, checkby)
    IN  IF Raised(appenddf) THEN appenddf
        ELSE reset_index(DelColumn(appenddf, checkby))

\* _delete_rows taking the store rows that are in the new dataset.
_delete_rows_Union(new_datasetdf, databasedf, checkby) ==
    LET db_filled == fillna(databasedf)
        new_filled == fillna(new_datasetdf)
        deletedf == _get_left_union_df(db_filled, new_filled, checkby)
    IN  IF Raised(deletedf) THEN deletedf
        ELSE IF ~empty(deletedf)
        THEN reset_index(RowIdVersionFrame(deletedf.index))
        ELSE EmptyFrame

_delete_rows(new_datasetdf, databasedf, checkby) ==
    LET db_filled == fillna(databasedf)
        new_filled == fillna(new_datasetdf)
        deletedf == _get_left_diff_df(db_filled, new_filled, checkby)
    IN  IF Raised(deletedf) THEN deletedf
        ELSE IF ~empty(deletedf)
        THEN reset_index(RowIdVersionFrame(deletedf.index))
        ELSE EmptyFrame

\* A row counted as different only when every cell is unequal.
DifferentRows_AllColumns(updatesetdf, updating_databasedf) ==
    [i \in DOMAIN updating_databasedf.rows |->
        \A c \in Range(updating_databasedf.columns) :
            ~PyEq(updatesetdf.rows[i][c], updating_databasedf.rows[i][c])]

\* updatesetdf != updating_databasedf, summed per row: TRUE for the rows with
\* at least one unequal cell.
DifferentRows(updatesetdf, updating_databasedf) ==
    [i \in DOMAIN updating_databasedf.rows |->
        \E c \in Range(updating_databasedf.columns) :
            ~PyEq(updatesetdf.rows[i][c], updating_databasedf.rows[i][c])]

\* ToUpdateDf taking the first row ids instead of those of the differing rows.
ToUpdateDf_FirstRowIds(updatesetdf, rowids, differentrows, checkby) ==
    LET pos == Positions(differentrows)
        toupdatedf == DelColumn(TakeRows(updatesetdf, pos), checkby)
        rowid_version == RowIdVersionFrame([j \in DOMAIN pos |-> rowids[j]])
        with_id == SetColumn(toupdatedf, "ROW_ID",
                       [j \in DOMAIN pos |-> rowid_version.rows[j][0]])
        with_version == SetColumn(with_id, "ROW_VERSION",
                       [j \in DOMAIN pos |-> rowid_version.rows[j][1]])
    IN  reset_index(with_version)

\* The rows of _update_rows' result: the differing rows take the new
\* dataset's values, lose the checkby column and get the row id and version
\* that stand at the same position among the kept row ids.
ToUpdateDf(updatesetdf, rowids, differentrows, checkby) ==
    LET pos == Positions(differentrows)
        toupdatedf == DelColumn(TakeRows(updatesetdf, pos), checkby)
        rowid_version == RowIdVersionFrame([j \in DOMAIN pos |-> rowids[pos[j]]])
        with_id == SetColumn(toupdatedf, "ROW_ID",
                       [j \in DOMAIN pos |-> rowid_version.rows[j][0]])
        with_version == SetColumn(with_id, "ROW_VERSION",
                       [j \in DOMAIN pos |-> rowid_version.rows[j][1]])
    IN  reset_index(with_version)

_update_rows(new_datasetdf, databasedf, checkby) ==
    LET db_filled == fillna(databasedf)
        new_filled == fillna(new_datasetdf)
        union_new == _get_left_union_df(new_filled, db_filled, checkby)
        union_db == _get_left_union_df(db_filled, new_filled, checkby)
    IN  IF Raised(union_new) THEN union_new
        ELSE IF Raised(union_db) THEN union_db
        ELSE
        LET rowids == union_db.index
            updating_databasedf == IndexByColumn(union_db, checkby)
            deduped == DropDuplicatedIndex(IndexByColumn(union_new, checkby))
            updatesetdf == loc(deduped, updating_databasedf.index)
        IN  IF Raised(updatesetdf) THEN updatesetdf
            ELSE IF updatesetdf.index # updating_databasedf.index
                    \/ updatesetdf.columns # updating_databasedf.columns
            THEN Raise("ValueError")
            ELSE
            LET differentrows == DifferentRows(updatesetdf, updating_databasedf) IN
            IF \E i \in DOMAIN differentrows : differentrows[i]
            THEN ToUpdateDf(updatesetdf, rowids, differentrows, checkby)
            ELSE EmptyFrame

\* append that fills a cell its row lacks from the other frame's row with the
\* same index label (alignment on the index instead of stacking).
pdappend_IndexAligned(a, b) ==
    LET extra == Positions([i \in DOMAIN b.columns |->
                     b.columns[i] \notin Range(a.columns)])
        cols == a.columns \o [j \in DOMAIN extra |-> b.columns[extra[j]]]
        widen(row, label) == [c \in Range(cols) |->
            IF c \in DOMAIN row THEN row[c]
            ELSE IF \E k \in DOMAIN b.rows : b.index[k] = label
                 THEN b.rows[CHOOSE k \in DOMAIN b.rows : b.index[k] = label][c]
                 ELSE NaN]
    IN  [columns |-> cols,
         index |-> a.index \o b.index,
         rows |-> [i \in DOMAIN a.rows |-> widen(a.rows[i], a.index[i])]
                  \o [i \in DOMAIN b.rows |-> widen(b.rows[i], b.index[i])]]

\* a.append(b): the rows of a, then the rows of b, over the union of their
\* columns; a cell of a column the row's frame lacks is missing.
pdappend(a, b) ==
    LET extra == Positions([i \in DOMAIN b.columns |->
                     b.columns[i] \notin Range(a.columns)])
        cols == a.columns \o [j \in DOMAIN extra |-> b.columns[extra[j]]]
        widen(row) == [c \in Range(cols) |->
                          IF c \in DOMAIN row THEN row[c] ELSE NaN]
    IN  [columns |-> cols,
         index |-> a.index \o b.index,
         rows |-> [i \in DOMAIN a.rows |-> widen(a.rows[i])]
                  \o [i \in DOMAIN b.rows |-> widen(b.rows[i])]]

\* -------------------------------------------------- the file toUpdateAll.csv

\* File text is a sequence of tokens: one-character strings, and each column
\* label of the header as one token.

\* ",".join(columnOrder) + "\n" (line 540).
HeaderLine(columns) ==
    pyjoin(<<",">>, [k \in DOMAIN columns |-> <<columns[k]>>]) \o <<"\n">>

\* One cell as to_csv writes it: a missing value as nothing, any other value
\* as its str().
CsvCell(v) == IF isnull(v) THEN <<>> ELSE v.s

\* df.to_csv(index=False, header=None): one line per row, the cells in column
\* order with a comma between them.
to_csv(df) ==
    pyjoin(<<>>, [i \in DOMAIN df.rows |->
        pyjoin(<<",">>, [k \in DOMAIN df.columns |->
                            CsvCell(df.rows[i][df.columns[k]])]) \o <<"\n">>])

\* The text without the ".0" that precedes a comma (lines 542 and 545).
NoFloatBeforeComma(text) == pyreplace(text, <<".", "0", ",">>, <<",">>)

\* Closing a file opened with "w": the buffered text lands at offset 0 of
\* what is on disk.
Flush(buffered, ondisk) ==
    buffered \o SubSeq(ondisk, Len(buffered) + 1, Len(ondisk))

\* ------------------------------------------------------ the Synapse table

\* The table behind databaseSynId is a record [columns, ids, versions, rows,
\* next, version]: per row its row id, its row version and its values; the
\* id the next new row gets; and the version of the last change set.

\* syn.tableQuery("SELECT * ...").asDataFrame(): the rows under the index
\* labels "<row id>_<row version>" (line 490).
AsDataFrame(table) ==
    [columns |-> table.columns,
     index |-> [i \in DOMAIN table.rows |->
                   IntStr(table.ids[i]) \o <<"_">> \o IntStr(table.versions[i])],
     rows |-> table.rows]

IsDigits(text) ==
    Len(text) > 0 /\ \A i \in DOMAIN text : text[i] \in Range(DigitChar)

\* A field of an uploaded line as the table holds it: nothing is a missing
\* value, digits are an integer, digits with a fraction a float, the rest text.
ParseCell(text) ==
    LET p == FindChar(text, ".", 1) IN
    IF Len(text) = 0 THEN NaN
    ELSE IF IsDigits(text) THEN [t |-> "int", s |-> text]
    ELSE IF p > 1 /\ IsDigits(SubSeq(text, 1, p - 1))
            /\ IsDigits(SubSeq(text, p + 1, Len(text)))
         THEN [t |-> "float", s |-> text]
    ELSE StrVal(text)

\* One line of an uploaded file applied to the table: a line of two fields
\* deletes the row with that id; a line without ROW_ID adds a row under the
\* next id; any other line replaces the values of the row with its ROW_ID.
ApplyLine(table, header, fields, version) ==
    LET values == [c \in Range(table.columns) |->
                      ParseCell(fields[CHOOSE k \in DOMAIN header :
                                           header[k] = <<c>>])]
        kept == Positions([i \in DOMAIN table.ids |->
                              IntStr(table.ids[i]) # fields[1]])
    IN  IF Len(fields) = 2
        THEN [table EXCEPT !.ids = [j \in DOMAIN kept |-> table.ids[kept[j]]],
                           !.versions = [j \in DOMAIN kept |-> table.versions[kept[j]]],
                           !.rows = [j \in DOMAIN kept |-> table.rows[kept[j]]]]
        ELSE IF Len(fields) # Len(header) THEN table
        ELSE IF fields[1] = <<>>
        THEN [table EXCEPT !.ids = Append(table.ids, table.next),
                           !.versions = Append(table.versions, version),
                           !.rows = Append(table.rows, values),
                           !.next = table.next + 1]
        ELSE [table EXCEPT
                 !.versions = [i \in DOMAIN table.ids |->
                     IF IntStr(table.ids[i]) = fields[1] THEN version
                     ELSE table.versions[i]],
                 !.rows = [i \in DOMAIN table.ids |->
                     IF IntStr(table.ids[i]) = fields[1] THEN values
                     ELSE table.rows[i]]]

RECURSIVE ApplyLines(_, _, _, _)
ApplyLines(table, header, lines, version) ==
    IF Len(lines) = 0 THEN table
    ELSE ApplyLines(ApplyLine(table, header, pysplit(lines[1], ","), version),
                    header, Tail(lines), version)

\* syn.store(synapseclient.Table(databaseSynId, file)) as Synapse applies it:
\* the data lines of the file, in order, as one change set (line 548).
Apply(table, text) ==
    LET parts == pysplit(text, "\n")
        lines == SubSeq(parts, 1, Len(parts) - 1)
    IN  IF Len(lines) < 2 THEN table
        ELSE [ApplyLines(table, pysplit(lines[1], ","), Tail(lines),
                         table.version + 1)
                 EXCEPT !.version = table.version + 1]

\* ------------------------------------------------------- updateDatabase

VARIABLES
    pc,             \* where the invocation of updateDatabase stands
    database,       \* the caller's store frame (index: "<row id>_<row version>")
    new_dataset,    \* the caller's new dataset
    uniqueKeyCols,  \* the key columns, in the order given
    toDelete,       \* the toDelete argument
    db,             \* updateDatabase's own `database` from line 513 on
    nd,             \* updateDatabase's own `new_dataset` from line 517 on
    columnOrder,    \* ROW_ID, ROW_VERSION, then the store's columns
    appendrows, updaterows, deleterows, allupdates,
    calls,          \* the extraction functions called so far, in call order
    file,           \* the text of SCRIPT_DIR/toUpdateAll.csv on disk
    buffer,         \* what updateFile holds between open and close
    storedatabase,  \* the flag of line 536
    stored,         \* the files handed to syn.store so far, as they were read
    peer,           \* another invocation of updateDatabase in the same directory
    table,          \* the Synapse table the store frame is read from
    run,            \* how many invocations the caller has started, this one included
    reads,          \* per tableQuery so far: who asked, after how many store writes
    input_str,      \* the argument of removeStringFloat
    output,         \* what removeStringFloat returned
    validation      \* one call of FileTypeFormat.validate

vars == <<pc, database, new_dataset, uniqueKeyCols, toDelete, db, nd,
          columnOrder, appendrows, updaterows, deleterows, allupdates, calls,
          file, buffer, storedatabase, stored, peer,
          table, run, reads, input_str, output, validation>>

\* What no step of updateDatabase touches.
rest == <<run, reads, input_str, output, validation>>

\* What lines 512-534 leave alone.
io == <<file, buffer, storedatabase, stored, peer>>

\* What lines 536-548 leave alone.
frames == <<database, new_dataset, uniqueKeyCols, toDelete, db, nd,
            columnOrder, appendrows, updaterows, deleterows, allupdates, calls>>

\* No other invocation is running.
NoPeer == [pc |-> "none"]

checkBy == "UNIQUE_KEY"

\* UNIQUE_KEY joined in the order the frame holds the key columns, not in the
\* order they were given.
WithUniqueKey_FrameOrder(df, keyCols) ==
    LET coerced == [df EXCEPT !.rows = [i \in DOMAIN df.rows |->
                       [c \in DOMAIN df.rows[i] |->
                           IF c \in Range(keyCols) THEN pystr(df.rows[i][c])
                           ELSE df.rows[i][c]]]]
        pos == Positions([k \in DOMAIN df.columns |->
                             df.columns[k] \in Range(keyCols)])
    IN  SetColumn(coerced, checkBy,
            [i \in DOMAIN coerced.rows |->
                StrVal(pyjoin(<<" ">>,
                    [k \in DOMAIN pos |-> coerced.rows[i][df.columns[pos[k]]].s]))])

\* Lines 520-521 (522-523): the key columns become text, and UNIQUE_KEY is
\* their values joined by one space.
WithUniqueKey(df, keyCols) ==
    LET coerced == [df EXCEPT !.rows = [i \in DOMAIN df.rows |->
                       [c \in DOMAIN df.rows[i] |->
                           IF c \in Range(keyCols) THEN pystr(df.rows[i][c])
                           ELSE df.rows[i][c]]]]
    IN  SetColumn(coerced, checkBy,
            [i \in DOMAIN coerced.rows |->
                StrVal(pyjoin(<<" ">>,
                    [k \in DOMAIN keyCols |-> coerced.rows[i][keyCols[k]].s]))])

\* df.reindex(columns=cols): a column df lacks comes out missing.
Reindex(df, cols) ==
    [df EXCEPT !.columns = cols,
               !.rows = [i \in DOMAIN df.rows |->
                   [c \in Range(cols) |->
                       IF c \in DOMAIN df.rows[i] THEN df.rows[i][c] ELSE NaN]]]

\* Line 519 with reindex in the place of [...]: a store column the new
\* dataset lacks is taken as missing values.
Prepare_Reindex ==
    /\ pc = "call"
    /\ LET filled_db == fillna(database)
           origDatabaseCols == filled_db.columns
           filled_new == fillna(new_dataset)
       IN  IF Range(uniqueKeyCols) \subseteq Range(origDatabaseCols)
           THEN /\ db' = WithUniqueKey(filled_db, uniqueKeyCols)
                /\ nd' = WithUniqueKey(Reindex(filled_new, origDatabaseCols),
                                       uniqueKeyCols)
                /\ columnOrder' = <<"ROW_ID", "ROW_VERSION">> \o origDatabaseCols
                /\ pc' = "keyed"
           ELSE /\ pc' = "error"
                /\ UNCHANGED <<db, nd, columnOrder>>
    /\ UNCHANGED io
    /\ UNCHANGED <<table, rest>>
    /\ UNCHANGED <<database, new_dataset, uniqueKeyCols, toDelete,
                   appendrows, updaterows, deleterows, allupdates, calls>>

\* Lines 512-523 working on the caller's frames themselves (fillna with
\* inplace=True, and the columns set on the frames passed in).
Prepare_InPlace ==
    /\ pc = "call"
    /\ LET filled_db == fillna(database)
           origDatabaseCols == filled_db.columns
           filled_new == fillna(new_dataset)
       IN  IF Range(origDatabaseCols) \subseteq Range(filled_new.columns)
              /\ Range(uniqueKeyCols) \subseteq Range(origDatabaseCols)
           THEN /\ db' = WithUniqueKey(filled_db, uniqueKeyCols)
                /\ nd' = WithUniqueKey(SelectColumns(filled_new, origDatabaseCols),
                                       uniqueKeyCols)
                /\ database' = db'
                /\ new_dataset' = WithUniqueKey(filled_new, uniqueKeyCols)
                /\ columnOrder' = <<"ROW_ID", "ROW_VERSION">> \o origDatabaseCols
                /\ pc' = "keyed"
           ELSE /\ pc' = "error"
                /\ UNCHANGED <<database, new_dataset, db, nd, columnOrder>>
    /\ UNCHANGED io
    /\ UNCHANGED <<table, rest>>
    /\ UNCHANGED <<uniqueKeyCols, toDelete,
                   appendrows, updaterows, deleterows, allupdates, calls>>

\* Lines 512-523.  A column the new dataset lacks, or a key column either
\* frame lacks, raises KeyError.
Prepare ==
    /\ pc = "call"
    /\ LET filled_db == fillna(database)
           origDatabaseCols == filled_db.columns
           filled_new == fillna(new_dataset)
       IN  IF Range(origDatabaseCols) \subseteq Range(filled_new.columns)
              /\ Range(uniqueKeyCols) \subseteq Range(origDatabaseCols)
           THEN /\ db' = WithUniqueKey(filled_db, uniqueKeyCols)
                /\ nd' = WithUniqueKey(SelectColumns(filled_new, origDatabaseCols),
                                       uniqueKeyCols)
                /\ columnOrder' = <<"ROW_ID", "ROW_VERSION">> \o origDatabaseCols
                /\ pc' = "keyed"
           ELSE /\ pc' = "error"
                /\ UNCHANGED <<db, nd, columnOrder>>
    /\ UNCHANGED io
    /\ UNCHANGED <<table, rest>>
    /\ UNCHANGED <<database, new_dataset, uniqueKeyCols, toDelete,
                   appendrows, updaterows, deleterows, allupdates, calls>>

\* Line 527.  _append_rows fills its two arguments in place.
AppendRows ==
    /\ pc = "keyed"
    /\ appendrows' = _append_rows(nd, db, checkBy)
    /\ db' = fillna(db)
    /\ nd' = fillna(nd)
    /\ calls' = Append(calls, "_append_rows")
    /\ pc' = IF Raised(appendrows') THEN "error" ELSE "appended"
    /\ UNCHANGED io
    /\ UNCHANGED <<table, rest>>
    /\ UNCHANGED <<database, new_dataset, uniqueKeyCols, toDelete, columnOrder,
                   updaterows, deleterows, allupdates>>

\* Line 528.
UpdateRows ==
    /\ pc = "appended"
    /\ updaterows' = _update_rows(nd, db, checkBy)
    /\ db' = fillna(db)
    /\ nd' = fillna(nd)
    /\ calls' = Append(calls, "_update_rows")
    /\ pc' = IF Raised(updaterows') THEN "error" ELSE "updated"
    /\ UNCHANGED io
    /\ UNCHANGED <<table, rest>>
    /\ UNCHANGED <<database, new_dataset, uniqueKeyCols, toDelete, columnOrder,
                   appendrows, deleterows, allupdates>>

\* The delete step without the toDelete test.
DeleteRows_Always ==
    /\ pc = "updated"
    /\ deleterows' = _delete_rows(nd, db, checkBy)
    /\ db' = fillna(db)
    /\ nd' = fillna(nd)
    /\ calls' = Append(calls, "_delete_rows")
    /\ pc' = IF Raised(deleterows') THEN "error" ELSE "deleted"
    /\ UNCHANGED io
    /\ UNCHANGED <<table, rest>>
    /\ UNCHANGED <<database, new_dataset, uniqueKeyCols, toDelete, columnOrder,
                   appendrows, updaterows, allupdates>>

\* Lines 529-532.
DeleteRows ==
    /\ pc = "updated"
    /\ IF toDelete
       THEN /\ deleterows' = _delete_rows(nd, db, checkBy)
            /\ db' = fillna(db)
            /\ nd' = fillna(nd)
            /\ calls' = Append(calls, "_delete_rows")
       ELSE /\ deleterows' = EmptyFrame
            /\ UNCHANGED <<db, nd, calls>>
    /\ pc' = IF Raised(deleterows') THEN "error" ELSE "deleted"
    /\ UNCHANGED io
    /\ UNCHANGED <<table, rest>>
    /\ UNCHANGED <<database, new_dataset, uniqueKeyCols, toDelete, columnOrder,
                   appendrows, updaterows, allupdates>>

\* Lines 533-534 in the other order: the updated rows first.
Assemble_UpdatesFirst ==
    /\ pc = "deleted"
    /\ allupdates' = pdappend(pdappend(EmptyFrame, updaterows), appendrows)
    /\ pc' = "assembled"
    /\ UNCHANGED io
    /\ UNCHANGED <<table, rest>>
    /\ UNCHANGED <<database, new_dataset, uniqueKeyCols, toDelete, db, nd,
                   columnOrder, appendrows, updaterows, deleterows, calls>>

\* Lines 526, 533-534.
Assemble ==
    /\ pc = "deleted"
    /\ allupdates' = pdappend(pdappend(EmptyFrame, appendrows), updaterows)
    /\ pc' = "assembled"
    /\ UNCHANGED io
    /\ UNCHANGED <<table, rest>>
    /\ UNCHANGED <<database, new_dataset, uniqueKeyCols, toDelete, db, nd,
                   columnOrder, appendrows, updaterows, deleterows, calls>>

\* Lines 536-540: the file is opened for writing, which empties it, and the
\* header goes into updateFile.
OpenFile ==
    /\ pc = "assembled"
    /\ storedatabase' = FALSE
    /\ file' = <<>>
    /\ buffer' = HeaderLine(columnOrder)
    /\ pc' = "opened"
    /\ UNCHANGED <<stored, peer>>
    /\ UNCHANGED frames
    /\ UNCHANGED <<table, rest>>

\* Lines 541-543 writing allupdates as it was put together, without
\* selecting columnOrder.
WriteUpdates_AsAssembled ==
    /\ pc = "opened"
    /\ IF empty(allupdates)
       THEN UNCHANGED <<buffer, storedatabase>>
       ELSE /\ buffer' = buffer \o NoFloatBeforeComma(to_csv(allupdates))
            /\ storedatabase' = TRUE
    /\ pc' = "updates_written"
    /\ UNCHANGED <<file, stored, peer>>
    /\ UNCHANGED frames
    /\ UNCHANGED <<table, rest>>

\* Lines 541-543 with the store call in a finally clause: the file is
\* handed to syn.store whether or not the write raised.
WriteUpdates_StoreInFinally ==
    /\ pc = "opened"
    /\ IF empty(allupdates)
       THEN /\ pc' = "updates_written"
            /\ UNCHANGED <<file, buffer, storedatabase, stored>>
       ELSE IF Range(columnOrder) \subseteq Range(allupdates.columns)
       THEN /\ buffer' = buffer \o NoFloatBeforeComma(
                             to_csv(SelectColumns(allupdates, columnOrder)))
            /\ storedatabase' = TRUE
            /\ pc' = "updates_written"
            /\ UNCHANGED <<file, stored>>
       ELSE /\ file' = Flush(buffer, file)
            /\ stored' = Append(stored, [by |-> "updateDatabase", text |-> file'])
            /\ pc' = "error"
            /\ UNCHANGED <<buffer, storedatabase>>
    /\ UNCHANGED peer
    /\ UNCHANGED frames
    /\ UNCHANGED <<table, rest>>

\* Lines 541-543.  allupdates[columnOrder] raises KeyError when allupdates
\* lacks one of the columns; the with block then closes the file.
WriteUpdates ==
    /\ pc = "opened"
    /\ IF empty(allupdates)
       THEN /\ pc' = "updates_written"
            /\ UNCHANGED <<file, buffer, storedatabase>>
       ELSE IF Range(columnOrder) \subseteq Range(allupdates.columns)
       THEN /\ buffer' = buffer \o NoFloatBeforeComma(
                             to_csv(SelectColumns(allupdates, columnOrder)))
            /\ storedatabase' = TRUE
            /\ pc' = "updates_written"
            /\ UNCHANGED file
       ELSE /\ file' = Flush(buffer, file)
            /\ pc' = "error"
            /\ UNCHANGED <<buffer, storedatabase>>
    /\ UNCHANGED <<stored, peer>>
    /\ UNCHANGED frames
    /\ UNCHANGED <<table, rest>>

\* Lines 544-546, and the end of the with block, which closes the file.
WriteDeletes ==
    /\ pc = "updates_written"
    /\ IF empty(deleterows)
       THEN UNCHANGED <<buffer, storedatabase>>
       ELSE /\ buffer' = buffer \o NoFloatBeforeComma(to_csv(deleterows))
            /\ storedatabase' = TRUE
    /\ file' = Flush(buffer', file)
    /\ pc' = "written"
    /\ UNCHANGED <<stored, peer>>
    /\ UNCHANGED frames
    /\ UNCHANGED <<table, rest>>

\* syn.store that is never reached.
Store_Never ==
    /\ pc = "written"
    /\ pc' = "done"
    /\ UNCHANGED <<file, buffer, storedatabase, stored, peer>>
    /\ UNCHANGED frames
    /\ UNCHANGED <<table, rest>>

\* Lines 547-548: syn.store uploads the file as it is on disk now.
Store ==
    /\ pc = "written"
    /\ IF storedatabase
       THEN /\ stored' = Append(stored, [by |-> "updateDatabase", text |-> file])
            /\ table' = Apply(table, file)
       ELSE UNCHANGED <<stored, table>>
    /\ pc' = "done"
    /\ UNCHANGED <<file, buffer, storedatabase, peer>>
    /\ UNCHANGED frames
    /\ UNCHANGED rest

\* -------------------------------------------- a second, overlapping invocation

\* Lines 512-534 as one computation: what an invocation holds when it reaches
\* line 536, or the error it raised.
Batch(store, new, keyCols, delete) ==
    LET filled_db == fillna(store)
        origDatabaseCols == filled_db.columns
        filled_new == fillna(new)
    IN  IF ~(Range(origDatabaseCols) \subseteq Range(filled_new.columns)
             /\ Range(keyCols) \subseteq Range(origDatabaseCols))
        THEN Raise("KeyError")
        ELSE
        LET keyed_db == WithUniqueKey(filled_db, keyCols)
            keyed_new == WithUniqueKey(SelectColumns(filled_new, origDatabaseCols),
                                       keyCols)
            appended == _append_rows(keyed_new, keyed_db, checkBy)
            updated == _update_rows(keyed_new, keyed_db, checkBy)
            deleted == IF delete THEN _delete_rows(keyed_new, keyed_db, checkBy)
                       ELSE EmptyFrame
        IN  IF Raised(appended) THEN appended
            ELSE IF Raised(updated) THEN updated
            ELSE IF Raised(deleted) THEN deleted
            ELSE [columnOrder |-> <<"ROW_ID", "ROW_VERSION">> \o origDatabaseCols,
                  allupdates |-> pdappend(pdappend(EmptyFrame, appended), updated),
                  deleterows |-> deleted]

\* The other invocation when it is entered.
PeerEntered(store, new, keyCols, delete) ==
    [pc |-> "call", database |-> store, new_dataset |-> new,
     uniqueKeyCols |-> keyCols, toDelete |-> delete,
     columnOrder |-> <<>>, allupdates |-> EmptyFrame, deleterows |-> EmptyFrame,
     buffer |-> <<>>, storedatabase |-> FALSE]

\* Lines 512-540 of the other invocation: it computes its batch, opens the
\* same file, which empties it, and puts the header into its updateFile.
PeerOpen ==
    /\ peer.pc = "call"
    /\ LET b == Batch(peer.database, peer.new_dataset, peer.uniqueKeyCols,
                      peer.toDelete)
       IN  IF Raised(b)
           THEN /\ peer' = [peer EXCEPT !.pc = "error"]
                /\ UNCHANGED file
           ELSE /\ peer' = [peer EXCEPT !.pc = "opened",
                                        !.columnOrder = b.columnOrder,
                                        !.allupdates = b.allupdates,
                                        !.deleterows = b.deleterows,
                                        !.buffer = HeaderLine(b.columnOrder)]
                /\ file' = <<>>
    /\ UNCHANGED <<pc, buffer, storedatabase, stored>>
    /\ UNCHANGED frames
    /\ UNCHANGED <<table, rest>>

\* Lines 541-546 of the other invocation, and the close of its updateFile.
PeerWrite ==
    /\ peer.pc = "opened"
    /\ IF ~empty(peer.allupdates)
          /\ ~(Range(peer.columnOrder) \subseteq Range(peer.allupdates.columns))
       THEN /\ file' = Flush(peer.buffer, file)
            /\ peer' = [peer EXCEPT !.pc = "error"]
       ELSE LET updates ==
                    IF empty(peer.allupdates) THEN <<>>
                    ELSE NoFloatBeforeComma(to_csv(
                             SelectColumns(peer.allupdates, peer.columnOrder)))
                deletes ==
                    IF empty(peer.deleterows) THEN <<>>
                    ELSE NoFloatBeforeComma(to_csv(peer.deleterows))
                written == peer.buffer \o updates \o deletes
            IN  /\ file' = Flush(written, file)
                /\ peer' = [peer EXCEPT !.pc = "written",
                                        !.buffer = written,
                                        !.storedatabase =
                                            ~empty(peer.allupdates)
                                            \/ ~empty(peer.deleterows)]
    /\ UNCHANGED <<pc, buffer, storedatabase, stored>>
    /\ UNCHANGED frames
    /\ UNCHANGED <<table, rest>>

\* Lines 547-548 of the other invocation.
PeerStore ==
    /\ peer.pc = "written"
    /\ IF peer.storedatabase
       THEN /\ stored' = Append(stored, [by |-> "peer", text |-> file])
            /\ table' = Apply(table, file)
       ELSE UNCHANGED <<stored, table>>
    /\ peer' = [peer EXCEPT !.pc = "done"]
    /\ UNCHANGED <<pc, file, buffer, storedatabase>>
    /\ UNCHANGED frames
    /\ UNCHANGED rest

\* -------------------------------------------------------------- updateData

\* Lines 488-494: updateData reads the table as it is now (the rows the query
\* selects are the table's rows), keeps the columns in col when col is given,
\* and otherwise cuts the new data to the columns read; line 495 then enters
\* updateDatabase.
UpdateData ==
    /\ pc = "updateData"
    /\ reads' = Append(reads, [by |-> "updateDatabase", writes |-> Len(stored)])
    /\ LET read == AsDataFrame(table) IN
       \E col \in {"None", "all"} :
          IF col = "all"
          THEN /\ database' = SelectColumns(read, read.columns)
               /\ pc' = "call"
               /\ UNCHANGED new_dataset
          ELSE IF Range(read.columns) \subseteq Range(new_dataset.columns)
          THEN /\ database' = read
               /\ new_dataset' = SelectColumns(new_dataset, read.columns)
               /\ pc' = "call"
          ELSE /\ pc' = "error"
               /\ UNCHANGED <<database, new_dataset>>
    /\ UNCHANGED <<uniqueKeyCols, toDelete, db, nd, columnOrder, appendrows,
                   updaterows, deleterows, allupdates, calls>>
    /\ UNCHANGED io
    /\ UNCHANGED <<table, run, input_str, output, validation>>

\* Lines 488-494 of the other invocation.
PeerUpdateData ==
    /\ peer.pc = "updateData"
    /\ reads' = Append(reads, [by |-> "peer", writes |-> Len(stored)])
    /\ LET read == AsDataFrame(table) IN
       IF Range(read.columns) \subseteq Range(peer.new_dataset.columns)
       THEN peer' = [peer EXCEPT !.pc = "call",
                                 !.database = read,
                                 !.new_dataset = SelectColumns(peer.new_dataset,
                                                               read.columns)]
       ELSE peer' = [peer EXCEPT !.pc = "error"]
    /\ UNCHANGED <<pc, file, buffer, storedatabase, stored>>
    /\ UNCHANGED frames
    /\ UNCHANGED <<table, run, input_str, output, validation>>

\* A computed batch applied to the table as one change set: the rows whose
\* row id a delete pair names go, each updated row replaces the values of the
\* row with its ROW_ID, and the appended rows come last under fresh ids.
Applied(tbl, appended, updated, deleted) ==
    LET version == tbl.version + 1
        deletedIds == {deleted.rows[i][0].s : i \in DOMAIN deleted.rows}
        updatesOf(i) == {j \in DOMAIN updated.rows :
                            updated.rows[j]["ROW_ID"].s = IntStr(tbl.ids[i])}
        values(row) == [c \in Range(tbl.columns) |-> row[c]]
        kept == Positions([i \in DOMAIN tbl.ids |->
                              IntStr(tbl.ids[i]) \notin deletedIds])
    IN  [columns |-> tbl.columns,
         ids |-> [k \in DOMAIN kept |-> tbl.ids[kept[k]]]
                 \o [i \in DOMAIN appended.rows |-> tbl.next + i - 1],
         versions |-> [k \in DOMAIN kept |->
                          IF updatesOf(kept[k]) = {} THEN tbl.versions[kept[k]]
                          ELSE version]
                      \o [i \in DOMAIN appended.rows |-> version],
         rows |-> [k \in DOMAIN kept |->
                      IF updatesOf(kept[k]) = {} THEN tbl.rows[kept[k]]
                      ELSE values(updated.rows[
                               CHOOSE j \in updatesOf(kept[k]) :
                                   \A l \in updatesOf(kept[k]) : l <= j])]
                  \o [i \in DOMAIN appended.rows |-> values(appended.rows[i])],
         next |-> tbl.next + Len(appended.rows),
         version |-> version]

\* The caller applies the batch of lines 527-534 to the table and enters
\* updateDatabase again with the table's rows and the same new dataset.
ApplyBatch ==
    /\ pc = "assembled"
    /\ run < MaxRuns
    /\ run' = run + 1
    /\ table' = Applied(table, appendrows, updaterows, deleterows)
    /\ database' = AsDataFrame(table')
    /\ pc' = "call"
    /\ db' = EmptyFrame
    /\ nd' = EmptyFrame
    /\ columnOrder' = <<>>
    /\ appendrows' = EmptyFrame
    /\ updaterows' = EmptyFrame
    /\ deleterows' = EmptyFrame
    /\ allupdates' = EmptyFrame
    /\ calls' = <<>>
    /\ UNCHANGED <<new_dataset, uniqueKeyCols, toDelete>>
    /\ UNCHANGED io
    /\ UNCHANGED <<reads, input_str, output, validation>>

Next ==
    \/ Prepare \/ AppendRows \/ UpdateRows \/ DeleteRows \/ Assemble
    \/ OpenFile \/ WriteUpdates \/ WriteDeletes \/ Store

\* --------------------------------------------------------------- inputs

\* The index label Synapse gives row i of a table: "<row id>_<row version>".
RowId(i) == IntStr(i)
RowVersion(i) == IntStr(IF i < 3 THEN 3 ELSE 5)
RowLocator(i) == RowId(i) \o <<"_">> \o RowVersion(i)

\* The table whose rows carry those locators.
StoredTable(cols, rows) ==
    [columns |-> cols,
     ids |-> [i \in DOMAIN rows |-> i],
     versions |-> [i \in DOMAIN rows |-> IF i < 3 THEN 3 ELSE 5],
     rows |-> rows,
     next |-> Len(rows) + 1,
     version |-> 5]

\* No call of removeStringFloat or of FileTypeFormat.validate is under way,
\* and the caller has started one invocation.
RestIdle ==
    /\ run = 1
    /\ reads = <<>>
    /\ input_str = <<>>
    /\ output = <<>>
    /\ validation = [pc |-> "none"]

StoreFrame(cols, rows) ==
    [columns |-> cols, index |-> [i \in DOMAIN rows |-> RowLocator(i)], rows |-> rows]

NewFrame(cols, rows) ==
    [columns |-> cols, index |-> [i \in DOMAIN rows |-> i - 1], rows |-> rows]

\* The state when updateDatabase is entered with a store and a new dataset
\* of at most `most` rows each, drawn from the given rows.
Entered(cols, keyCols, storeRows, newRows, most) ==
    /\ pc = "call"
    /\ \E n \in 0..most, m \in 0..most :
         \E sr \in [1..n -> storeRows], nr \in [1..m -> newRows] :
            /\ database = StoreFrame(cols, sr)
            /\ new_dataset = NewFrame(cols, nr)
    /\ uniqueKeyCols = keyCols
    /\ toDelete \in BOOLEAN
    /\ db = EmptyFrame
    /\ nd = EmptyFrame
    /\ columnOrder = <<>>
    /\ appendrows = EmptyFrame
    /\ updaterows = EmptyFrame
    /\ deleterows = EmptyFrame
    /\ allupdates = EmptyFrame
    /\ calls = <<>>
    /\ file = <<>>
    /\ buffer = <<>>
    /\ storedatabase = FALSE
    /\ stored = <<>>
    /\ peer = NoPeer
    /\ table = StoredTable(database.columns, database.rows)
    /\ RestIdle

TestCols == <<"test", "foo">>

\* Rows with a text key and a number, as in the tests' DATABASE_DF.
PlainRows(keys) ==
    {[test |-> StrVal(k), foo |-> IntVal(n)] : k \in keys, n \in {1, 2}}

\* The store's rows, and the new dataset's: these and one more key.
StoreRows == PlainRows({<<"a">>, <<"b">>})
NewRows == PlainRows({<<"a">>, <<"b">>, <<"c">>})

\* Rows in which the key or the other column may be missing or empty.
NullRows ==
    {[test |-> k, foo |-> v] : k \in {StrVal(<<"a">>), EmptyStr, NaN},
                               v \in {IntVal(1), EmptyStr, NaN}}

Init == Entered(TestCols, <<"test">>, StoreRows, NewRows, MaxRows)

Spec == Init /\ [][Next]_vars

InitNull == Entered(TestCols, <<"test">>, NullRows, NullRows, MaxNullRows)

SpecNull == InitNull /\ [][Next]_vars

\* The values a column of the layout runs can hold: the key may be missing,
\* and the number comes as a number or as its text.
CellChoices(c) ==
    IF c = "test" THEN {StrVal(<<"a">>), NaN}
    ELSE IF c = "foo" THEN {IntVal(1), StrVal(<<"1">>)}
    ELSE {StrVal(<<"x">>)}

RowsOver(cols) ==
    {r \in [Range(cols) -> UNION {CellChoices(c) : c \in Range(cols)}] :
        \A c \in Range(cols) : r[c] \in CellChoices(c)}

\* The column layouts of the new dataset: the store's, the store's in another
\* order, with one more column, and without one of the store's columns.
NewLayouts ==
    {<<"test", "foo">>, <<"foo", "test">>, <<"foo", "extra", "test">>,
     <<"test">>, <<"foo">>}

\* The key columns named: one, two in an order that is not the store's, and
\* one the store lacks.
KeyChoices == {<<"test">>, <<"foo", "test">>, <<"extra">>}

InitSchema ==
    /\ pc = "call"
    /\ \E n \in 0..MaxSchemaRows, m \in 0..MaxSchemaRows, layout \in NewLayouts :
         \E sr \in [1..n -> RowsOver(TestCols)], nr \in [1..m -> RowsOver(layout)] :
            /\ database = StoreFrame(TestCols, sr)
            /\ new_dataset = NewFrame(layout, nr)
    /\ uniqueKeyCols \in KeyChoices
    /\ toDelete \in BOOLEAN
    /\ db = EmptyFrame
    /\ nd = EmptyFrame
    /\ columnOrder = <<>>
    /\ appendrows = EmptyFrame
    /\ updaterows = EmptyFrame
    /\ deleterows = EmptyFrame
    /\ allupdates = EmptyFrame
    /\ calls = <<>>
    /\ file = <<>>
    /\ buffer = <<>>
    /\ storedatabase = FALSE
    /\ stored = <<>>
    /\ peer = NoPeer
    /\ table = StoredTable(database.columns, database.rows)
    /\ RestIdle

SpecSchema == InitSchema /\ [][Next]_vars

\* A store with two numeric columns after its key, the second of them last.
FloatCols == <<"test", "score", "foo">>

\* Rows whose numbers are floats of integral value, or integers.
FloatRows ==
    {[test |-> StrVal(<<"a">>), score |-> x, foo |-> y] :
        x \in {FloatVal(1), FloatVal(2)}, y \in {IntVal(1), FloatVal(2)}}

InitFloat == Entered(FloatCols, <<"test">>, FloatRows, FloatRows, MaxFloatRows)

SpecFloat == InitFloat /\ [][Next]_vars

\* Two invocations in the same directory, on the same store and each with its
\* own new dataset of one key.
NextTwo ==
    \/ Prepare \/ AppendRows \/ UpdateRows \/ DeleteRows \/ Assemble
    \/ OpenFile \/ WriteUpdates \/ WriteDeletes \/ Store
    \/ PeerOpen \/ PeerWrite \/ PeerStore

PeerRows == PlainRows({<<"a">>})

InitTwo ==
    /\ pc = "call"
    /\ \E n \in 0..MaxPeerRows, m \in 0..MaxPeerRows :
         \E sr \in [1..n -> PeerRows], nr \in [1..m -> PeerRows] :
            /\ database = StoreFrame(TestCols, sr)
            /\ new_dataset = NewFrame(TestCols, nr)
    /\ uniqueKeyCols = <<"test">>
    /\ toDelete \in BOOLEAN
    /\ db = EmptyFrame
    /\ nd = EmptyFrame
    /\ columnOrder = <<>>
    /\ appendrows = EmptyFrame
    /\ updaterows = EmptyFrame
    /\ deleterows = EmptyFrame
    /\ allupdates = EmptyFrame
    /\ calls = <<>>
    /\ file = <<>>
    /\ buffer = <<>>
    /\ storedatabase = FALSE
    /\ stored = <<>>
    /\ \E m \in 0..MaxPeerRows, delete \in BOOLEAN :
         \E nr \in [1..m -> PeerRows] :
            peer = PeerEntered(database, NewFrame(TestCols, nr), <<"test">>, delete)
    /\ table = StoredTable(database.columns, database.rows)
    /\ RestIdle

SpecTwo == InitTwo /\ [][NextTwo]_vars

\* ------------------------------------------------ two runs of updateData

\* Two runs of updateData on one table, from one directory, carrying the same
\* new data.
NextRace ==
    \/ UpdateData \/ Prepare \/ AppendRows \/ UpdateRows \/ DeleteRows
    \/ Assemble \/ OpenFile \/ WriteUpdates \/ WriteDeletes \/ Store
    \/ PeerUpdateData \/ PeerOpen \/ PeerWrite \/ PeerStore

RaceStoreRows == PlainRows({<<"a">>})
RaceNewRows == PlainRows({<<"a">>, <<"c">>})

InitRace ==
    /\ pc = "updateData"
    /\ \E n \in 0..MaxRaceRows, m \in 0..MaxRaceNew :
         \E sr \in [1..n -> RaceStoreRows], nr \in [1..m -> RaceNewRows] :
            /\ table = StoredTable(TestCols, sr)
            /\ new_dataset = NewFrame(TestCols, nr)
    /\ database = EmptyFrame
    /\ uniqueKeyCols = <<"test">>
    /\ toDelete \in BOOLEAN
    /\ db = EmptyFrame
    /\ nd = EmptyFrame
    /\ columnOrder = <<>>
    /\ appendrows = EmptyFrame
    /\ updaterows = EmptyFrame
    /\ deleterows = EmptyFrame
    /\ allupdates = EmptyFrame
    /\ calls = <<>>
    /\ file = <<>>
    /\ buffer = <<>>
    /\ storedatabase = FALSE
    /\ stored = <<>>
    /\ peer = [PeerEntered(EmptyFrame, new_dataset, uniqueKeyCols, toDelete)
                  EXCEPT !.pc = "updateData"]
    /\ RestIdle

SpecRace == InitRace /\ [][NextRace]_vars

\* ------------------------------------- a batch applied, and computed again

NextConverge ==
    \/ Prepare \/ AppendRows \/ UpdateRows \/ DeleteRows \/ Assemble
    \/ ApplyBatch

\* Rows of the new dataset: two keys, and a missing number.
ConvergeNewRows ==
    PlainRows({<<"a">>, <<"c">>}) \cup {[test |-> StrVal(<<"c">>), foo |-> NaN]}

InitConverge ==
    /\ Entered(TestCols, <<"test">>, PlainRows({<<"a">>}), ConvergeNewRows,
               MaxApplyRows)
    /\ toDelete = TRUE

SpecConverge == InitConverge /\ [][NextConverge]_vars

\* ------------------------------------------------------ two key columns

\* Rows whose two columns are both key columns: text with and without a
\* space, and a number beside the text that str() makes of it.
KeyRows ==
    {[test |-> StrVal(t), foo |-> StrVal(f)] :
        t \in {<<"a">>, <<"a", " ", "b">>}, f \in {<<"c">>, <<"b", " ", "c">>}}
    \cup {[test |-> StrVal(<<"a">>), foo |-> v] : v \in {IntVal(1), StrVal(<<"1">>)}}

InitKeys == Entered(TestCols, <<"test", "foo">>, KeyRows, KeyRows, MaxKeyRows)

SpecKeys == InitKeys /\ [][Next]_vars

\* ---------------------------------------------- FileTypeFormat.validate

\* `validation` is one call of validate on one FileTypeFormat object: where
\* the call stands, the object's _validation_kwargs and ancillary_files, the
\* keyword arguments given, the calls made on the object so far, the local
\* errors and warnings, what _validate returned, and the ValidationResults.
\* A string is the sequence of its messages; "" is the empty sequence.

\* ancillary_files: None, a list of file groups, or a tuple of them.
AncillaryChoices ==
    {[kind |-> "None", files |-> <<>>]}
    \cup {[kind |-> k, files |-> [i \in 1..n |-> <<"entity">>]] :
             k \in {"list", "tuple"}, n \in 0..MaxAncillary}

\* What a subclass's _validate or _cross_validate may hand back.
ErrorTexts == {<<>>, <<"error\n">>}
WarningTexts == {<<>>, <<"warning\n">>}

\* The condition of lines 257-259 with any non-empty collection accepted.
CrossValidates_AnyCollection(errors, ancillary_files) ==
    /\ errors = <<>>
    /\ Len(ancillary_files.files) > 0

\* Lines 257-259: not errors and (isinstance(self.ancillary_files, list) and
\* self.ancillary_files).
CrossValidates(errors, ancillary_files) ==
    /\ errors = <<>>
    /\ ancillary_files.kind = "list"
    /\ Len(ancillary_files.files) > 0

\* ValidationResults(errors, warnings) (lines 16-26).
ValidationResults(errors, warnings) ==
    [errors |-> errors, warnings |-> warnings, is_valid |-> errors = <<>>]

\* Lines 234-241: every name in _validation_kwargs must be among the keyword
\* arguments, or the assert fails.
CollectKwargs ==
    /\ validation.pc = "entered"
    /\ validation' =
          IF validation.required \subseteq validation.given
          THEN [validation EXCEPT !.pc = "reading", !.errors = <<>>]
          ELSE [validation EXCEPT !.pc = "raised"]
    /\ UNCHANGED <<pc, table, run, reads, input_str, output>>
    /\ UNCHANGED io
    /\ UNCHANGED frames

\* Lines 243-249: read_file returns the frame, or raises an Exception that
\* becomes the error text, with empty warnings.
ReadFile ==
    /\ validation.pc = "reading"
    /\ \E raises \in BOOLEAN :
          validation' =
              IF raises
              THEN [validation EXCEPT
                       !.pc = "result",
                       !.calls = validation.calls \o <<"read_file", "read_file raised">>,
                       !.errors = <<"The file(s) cannot be read. Original error: ">>,
                       !.warnings = <<>>]
              ELSE [validation EXCEPT
                       !.pc = "validating",
                       !.calls = validation.calls \o <<"read_file", "read_file returned">>]
    /\ UNCHANGED <<pc, table, run, reads, input_str, output>>
    /\ UNCHANGED io
    /\ UNCHANGED frames

\* Lines 251-259: errors is empty, so _validate is called; it returns its
\* errors and warnings, or raises, and the condition for cross-validation is
\* taken.
Validate ==
    /\ validation.pc = "validating"
    /\ validation.errors = <<>>
    /\ \/ \E e \in ErrorTexts, w \in WarningTexts :
             validation' =
                 [validation EXCEPT
                     !.pc = IF CrossValidates(e, validation.ancillary_files)
                            THEN "cross-validating" ELSE "result",
                     !.calls = validation.calls \o <<"_validate", "_validate returned">>,
                     !.errors = e,
                     !.warnings = w,
                     !.validated = <<e, w>>]
       \/ validation' =
             [validation EXCEPT
                 !.pc = "raised",
                 !.calls = validation.calls \o <<"_validate", "_validate raised">>]
    /\ UNCHANGED <<pc, table, run, reads, input_str, output>>
    /\ UNCHANGED io
    /\ UNCHANGED frames

\* Lines 260-267: _cross_validate is called, and what it returns is put
\* after the errors and warnings held.
CrossValidate ==
    /\ validation.pc = "cross-validating"
    /\ \/ \E e \in ErrorTexts, w \in WarningTexts :
             validation' =
                 [validation EXCEPT
                     !.pc = "result",
                     !.calls = validation.calls
                                 \o <<"_cross_validate", "_cross_validate returned">>,
                     !.errors = validation.errors \o e,
                     !.warnings = validation.warnings \o w]
       \/ validation' =
             [validation EXCEPT
                 !.pc = "raised",
                 !.calls = validation.calls
                             \o <<"_cross_validate", "_cross_validate raised">>]
    /\ UNCHANGED <<pc, table, run, reads, input_str, output>>
    /\ UNCHANGED io
    /\ UNCHANGED frames

\* Lines 269-270.
ReturnResults ==
    /\ validation.pc = "result"
    /\ validation' =
          [validation EXCEPT
              !.pc = "returned",
              !.result = ValidationResults(validation.errors, validation.warnings)]
    /\ UNCHANGED <<pc, table, run, reads, input_str, output>>
    /\ UNCHANGED io
    /\ UNCHANGED frames

NextValidate ==
    \/ CollectKwargs \/ ReadFile \/ Validate \/ CrossValidate \/ ReturnResults

InitValidate ==
    /\ pc = "FileTypeFormat.validate"
    /\ \E required \in SUBSET {"project_id"}, given \in SUBSET {"project_id", "nosymbol_check"},
          ancillary_files \in AncillaryChoices :
            validation = [pc |-> "entered",
                          required |-> required,
                          given |-> given,
                          ancillary_files |-> ancillary_files,
                          calls |-> <<>>,
                          errors |-> <<>>,
                          warnings |-> <<>>,
                          validated |-> <<>>,
                          result |-> [errors |-> <<>>, warnings |-> <<>>,
                                      is_valid |-> TRUE]]
    /\ run = 1
    /\ reads = <<>>
    /\ input_str = <<>>
    /\ output = <<>>
    /\ table = StoredTable(<<>>, <<>>)
    /\ database = EmptyFrame
    /\ new_dataset = EmptyFrame
    /\ db = EmptyFrame
    /\ nd = EmptyFrame
    /\ uniqueKeyCols = <<>>
    /\ toDelete = FALSE
    /\ columnOrder = <<>>
    /\ appendrows = EmptyFrame
    /\ updaterows = EmptyFrame
    /\ deleterows = EmptyFrame
    /\ allupdates = EmptyFrame
    /\ calls = <<>>
    /\ file = <<>>
    /\ buffer = <<>>
    /\ storedatabase = FALSE
    /\ stored = <<>>
    /\ peer = NoPeer

SpecValidate == InitValidate /\ [][NextValidate]_vars

\* ------------------------------------- the extraction functions, called alone

\* One call of _append_rows(new_datasetdf, databasedf, "UNIQUE_KEY") on the
\* frames nd and db; the call fills both frames in place (lines 397-398).
CallAppendRows ==
    /\ pc = "helper"
    /\ appendrows' = _append_rows(nd, db, checkBy)
    /\ db' = fillna(db)
    /\ nd' = fillna(nd)
    /\ calls' = Append(calls, "_append_rows")
    /\ pc' = "returned"
    /\ UNCHANGED io
    /\ UNCHANGED <<table, rest>>
    /\ UNCHANGED <<database, new_dataset, uniqueKeyCols, toDelete, columnOrder,
                   updaterows, deleterows, allupdates>>

\* One call of _update_rows (fills both frames in place, lines 452-453).
CallUpdateRows ==
    /\ pc = "helper"
    /\ updaterows' = _update_rows(nd, db, checkBy)
    /\ db' = fillna(db)
    /\ nd' = fillna(nd)
    /\ calls' = Append(calls, "_update_rows")
    /\ pc' = "returned"
    /\ UNCHANGED io
    /\ UNCHANGED <<table, rest>>
    /\ UNCHANGED <<database, new_dataset, uniqueKeyCols, toDelete, columnOrder,
                   appendrows, deleterows, allupdates>>

\* One call of _delete_rows (fills both frames in place, lines 423-424).
CallDeleteRows ==
    /\ pc = "helper"
    /\ deleterows' = _delete_rows(nd, db, checkBy)
    /\ db' = fillna(db)
    /\ nd' = fillna(nd)
    /\ calls' = Append(calls, "_delete_rows")
    /\ pc' = "returned"
    /\ UNCHANGED io
    /\ UNCHANGED <<table, rest>>
    /\ UNCHANGED <<database, new_dataset, uniqueKeyCols, toDelete, columnOrder,
                   appendrows, updaterows, allupdates>>

NextHelpers == CallAppendRows \/ CallUpdateRows \/ CallDeleteRows

HelperCols == <<"UNIQUE_KEY", "foo">>

\* Rows that already carry the UNIQUE_KEY column, as the tests pass them;
\* the other column may be missing or empty.
HelperRows ==
    {[UNIQUE_KEY |-> StrVal(k), foo |-> v] :
        k \in {<<"a">>, <<"b">>}, v \in {IntVal(1), EmptyStr, NaN}}

\* database and new_dataset keep the frames as they were before the call;
\* db and nd are the two objects the function is called on.
InitHelpers ==
    /\ pc = "helper"
    /\ \E n \in 0..MaxHelperRows, m \in 0..MaxHelperRows :
         \E sr \in [1..n -> HelperRows], nr \in [1..m -> HelperRows] :
            /\ database = StoreFrame(HelperCols, sr)
            /\ new_dataset = NewFrame(HelperCols, nr)
    /\ db = database
    /\ nd = new_dataset
    /\ uniqueKeyCols = <<>>
    /\ toDelete = FALSE
    /\ columnOrder = <<>>
    /\ appendrows = EmptyFrame
    /\ updaterows = EmptyFrame
    /\ deleterows = EmptyFrame
    /\ allupdates = EmptyFrame
    /\ calls = <<>>
    /\ file = <<>>
    /\ buffer = <<>>
    /\ storedatabase = FALSE
    /\ stored = <<>>
    /\ peer = NoPeer
    /\ table = StoredTable(database.columns, database.rows)
    /\ RestIdle

SpecHelpers == InitHelpers /\ [][NextHelpers]_vars

\* ------------------------------------------- the diff helpers, called alone

\* _get_left_diff_df(nd, db, "UNIQUE_KEY"), called once.
CallLeftDiff ==
    /\ pc = "diff helpers"
    /\ "_get_left_diff_df" \notin Range(calls)
    /\ appendrows' = _get_left_diff_df(nd, db, checkBy)
    /\ calls' = Append(calls, "_get_left_diff_df")
    /\ UNCHANGED io
    /\ UNCHANGED <<table, rest>>
    /\ UNCHANGED <<pc, database, new_dataset, uniqueKeyCols, toDelete, db, nd,
                   columnOrder, updaterows, deleterows, allupdates>>

\* _get_left_union_df(nd, db, "UNIQUE_KEY"), called once.
CallLeftUnion ==
    /\ pc = "diff helpers"
    /\ "_get_left_union_df" \notin Range(calls)
    /\ updaterows' = _get_left_union_df(nd, db, checkBy)
    /\ calls' = Append(calls, "_get_left_union_df")
    /\ UNCHANGED io
    /\ UNCHANGED <<table, rest>>
    /\ UNCHANGED <<pc, database, new_dataset, uniqueKeyCols, toDelete, db, nd,
                   columnOrder, appendrows, deleterows, allupdates>>

NextDiff == CallLeftDiff \/ CallLeftUnion

\* Rows for the diff helpers: the key is a text or missing.
DiffRows ==
    {[UNIQUE_KEY |-> k, foo |-> IntVal(1)] :
        k \in {StrVal(<<"a">>), StrVal(<<"b">>), NaN}}

\* Rows of a frame that lacks the key column.
KeylessRows == {[foo |-> IntVal(1)]}

\* An argument that is no data frame: the string "foo" of the tests.
NotAFrame == [text |-> <<"f", "o", "o">>]

\* What a diff helper may be handed as its left argument: a frame with the
\* key column, a frame without it, or no frame at all.
LeftArguments ==
    UNION {{NewFrame(HelperCols, r) : r \in [1..n -> DiffRows]}
           \cup {NewFrame(<<"foo">>, r) : r \in [1..n -> KeylessRows]} :
              n \in 0..MaxDiffRows}
    \cup {NotAFrame}

RightArguments ==
    UNION {{StoreFrame(HelperCols, r) : r \in [1..n -> DiffRows]}
           \cup {StoreFrame(<<"foo">>, r) : r \in [1..n -> KeylessRows]} :
              n \in 0..MaxDiffRows}
    \cup {NotAFrame}

InitDiff ==
    /\ pc = "diff helpers"
    /\ nd \in LeftArguments
    /\ db \in RightArguments
    /\ database = db
    /\ new_dataset = nd
    /\ uniqueKeyCols = <<>>
    /\ toDelete = FALSE
    /\ columnOrder = <<>>
    /\ appendrows = EmptyFrame
    /\ updaterows = EmptyFrame
    /\ deleterows = EmptyFrame
    /\ allupdates = EmptyFrame
    /\ calls = <<>>
    /\ file = <<>>
    /\ buffer = <<>>
    /\ storedatabase = FALSE
    /\ stored = <<>>
    /\ peer = NoPeer
    /\ table = StoredTable(<<>>, <<>>)
    /\ RestIdle

SpecDiff == InitDiff /\ [][NextDiff]_vars

\* -------------------------------------------- removeStringFloat, called alone

CallRemoveStringFloat ==
    /\ pc = "removeStringFloat"
    /\ output' = removeStringFloat(input_str)
    /\ pc' = "string returned"
    /\ UNCHANGED io
    /\ UNCHANGED frames
    /\ UNCHANGED <<table, run, reads, input_str, validation>>

NextText == CallRemoveStringFloat

\* The characters of the tests' strings.
TextChars == {"1", ".", "0", "\t", "\n"}

InitText ==
    /\ pc = "removeStringFloat"
    /\ input_str \in UNION {[1..n -> TextChars] : n \in 0..MaxTextLen}
    /\ output = <<>>
    /\ run = 1
    /\ reads = <<>>
    /\ validation = [pc |-> "none"]
    /\ table = StoredTable(<<>>, <<>>)
    /\ database = EmptyFrame
    /\ new_dataset = EmptyFrame
    /\ db = EmptyFrame
    /\ nd = EmptyFrame
    /\ uniqueKeyCols = <<>>
    /\ toDelete = FALSE
    /\ columnOrder = <<>>
    /\ appendrows = EmptyFrame
    /\ updaterows = EmptyFrame
    /\ deleterows = EmptyFrame
    /\ allupdates = EmptyFrame
    /\ calls = <<>>
    /\ file = <<>>
    /\ buffer = <<>>
    /\ storedatabase = FALSE
    /\ stored = <<>>
    /\ peer = [pc |-> "none"]

SpecText == InitText /\ [][NextText]_vars

\* ------------------------------------------------------------ properties

\* updateDatabase has run its extraction steps (lines 527-532) without error.
ExtractionDone ==
    pc \notin {"call", "keyed", "appended", "updated", "error", "helper", "returned"}

\* updateDatabase has put the batch together (line 534).
BatchComputed == ExtractionDone /\ pc # "deleted"

\* The key of a row that has lost its UNIQUE_KEY column: its key columns,
\* joined by one space.
RowKey(row) ==
    pyjoin(<<" ">>, [k \in DOMAIN uniqueKeyCols |-> row[uniqueKeyCols[k]].s])

KeysOf(df) == {df.rows[i][checkBy].s : i \in DOMAIN df.rows}

\* The row id and row version of store row i, as text cells.
Identity(i) == <<StrVal(RowId(i)), StrVal(RowVersion(i))>>

\* Position of the first row of df whose UNIQUE_KEY is k.
FirstWithKey(df, k) ==
    CHOOSE i \in DOMAIN df.rows :
        /\ df.rows[i][checkBy].s = k
        /\ \A j \in 1..(i - 1) : df.rows[j][checkBy].s # k

\* The store rows a delete pair names.
DeletedStoreRows ==
    {i \in DOMAIN db.rows : \E j \in DOMAIN deleterows.rows :
        <<deleterows.rows[j][0], deleterows.rows[j][1]>> = Identity(i)}

AppendedKeys == {RowKey(appendrows.rows[i]) : i \in DOMAIN appendrows.rows}
UpdatedKeys == {RowKey(updaterows.rows[i]) : i \in DOMAIN updaterows.rows}
DeletedKeys == {db.rows[i][checkBy].s : i \in DeletedStoreRows}

\* The new dataset is the store's own rows, identity stripped.
SelfFeed ==
    /\ new_dataset.columns = database.columns
    /\ new_dataset.rows = database.rows

\* Store rows that share a UNIQUE_KEY hold equal values in every column.
StoreRowsAgreeOnKey ==
    \A i, j \in DOMAIN db.rows :
        db.rows[i][checkBy] = db.rows[j][checkBy]
            => \A c \in Range(db.columns) : PyEq(db.rows[i][c], db.rows[j][c])

C2_Disjointness ==
    (ExtractionDone /\ toDelete)
        => /\ AppendedKeys \cap UpdatedKeys = {}
           /\ AppendedKeys \cap DeletedKeys = {}
           /\ UpdatedKeys \cap DeletedKeys = {}
           /\ AppendedKeys = KeysOf(nd) \ KeysOf(db)
           /\ UpdatedKeys \subseteq KeysOf(nd) \cap KeysOf(db)
           /\ DeletedKeys = KeysOf(db) \ KeysOf(nd)
           /\ Cardinality(DeletedStoreRows) = Len(deleterows.rows)

\* One batch holds an appended row, an updated row and a delete pair.
C2_Witness ==
    /\ ExtractionDone /\ toDelete
    /\ AppendedKeys # {} /\ UpdatedKeys # {} /\ DeletedKeys # {}

\* The identities the updated rows carry.
UpdatedIdentities ==
    {<<updaterows.rows[i]["ROW_ID"], updaterows.rows[i]["ROW_VERSION"]>> :
        i \in DOMAIN updaterows.rows}

NullOrEmpty(v) == isnull(v) \/ v = EmptyStr

\* Two rows hold the same value in every column, a missing value and the
\* empty string counting as the same value.
NullEquivalentRows(r1, r2) ==
    \A c \in DOMAIN r1 : r1[c] = r2[c] \/ (NullOrEmpty(r1[c]) /\ NullOrEmpty(r2[c]))

\* C3: a store row and a new-dataset row that differ only by holding a
\* missing value where the other holds the empty string, in key columns or
\* other columns, get the same UNIQUE_KEY, and when that new-dataset row is
\* the (first) one with the key, no update is produced for the store row.
C3_NullEquivalence ==
    ExtractionDone =>
        \A i \in DOMAIN database.rows, j \in DOMAIN new_dataset.rows :
            NullEquivalentRows(database.rows[i], new_dataset.rows[j])
                => /\ db.rows[i][checkBy] = nd.rows[j][checkBy]
                   /\ j = FirstWithKey(nd, db.rows[i][checkBy].s)
                        => Identity(i) \notin UpdatedIdentities

\* A store row with an empty key and a missing value has been reconciled
\* with a new row with a missing key and an empty value.
C3_Witness ==
    /\ ExtractionDone
    /\ Len(database.rows) = 1 /\ Len(new_dataset.rows) = 1
    /\ database.rows[1]["test"] = EmptyStr /\ new_dataset.rows[1]["test"] = NaN
    /\ database.rows[1]["foo"] = NaN /\ new_dataset.rows[1]["foo"] = EmptyStr
    /\ empty(updaterows)

\* C4: the ROW_ID and ROW_VERSION of every row _update_rows emits are the
\* two parts of the locator of a store row that has the emitted row's key.
C4_IdentityPreserved ==
    ExtractionDone =>
        \A u \in DOMAIN updaterows.rows :
            \E i \in DOMAIN db.rows :
                /\ <<updaterows.rows[u]["ROW_ID"], updaterows.rows[u]["ROW_VERSION"]>>
                       = Identity(i)
                /\ RowKey(updaterows.rows[u]) = db.rows[i][checkBy].s

\* Two store rows are matched and only the second one differs.
C4_Witness ==
    /\ ExtractionDone
    /\ Len(db.rows) = 2
    /\ KeysOf(db) \subseteq KeysOf(nd)
    /\ Cardinality(KeysOf(db)) = 2
    /\ UpdatedIdentities = {Identity(2)}

\* C5: no appended row carries a ROW_ID or ROW_VERSION value: the result of
\* _append_rows has neither column, and in the assembled batch the appended
\* rows (the first ones) hold a missing value in both, if the columns exist.
C5_AppendStripsIdentity ==
    BatchComputed =>
        /\ {"ROW_ID", "ROW_VERSION"} \cap Range(appendrows.columns) = {}
        /\ \A i \in DOMAIN appendrows.rows :
              \A c \in {"ROW_ID", "ROW_VERSION"} :
                  c \in DOMAIN allupdates.rows[i] => isnull(allupdates.rows[i][c])

\* A batch with an appended row and an updated row.
C5_Witness ==
    /\ BatchComputed
    /\ ~empty(appendrows) /\ ~empty(updaterows)
    /\ "ROW_ID" \in Range(allupdates.columns)

\* The elements of a finite set of numbers, in ascending order.
RECURSIVE Ascending(_)
Ascending(S) ==
    IF S = {} THEN <<>>
    ELSE LET least == CHOOSE x \in S : \A y \in S : x <= y
         IN  <<least>> \o Ascending(S \ {least})

\* A value, and a row, after null normalisation.
Normal(v) == IF isnull(v) THEN EmptyStr ELSE v
NormalRow(r) == [c \in DOMAIN r |-> Normal(r[c])]

\* The key a frame passed to an extraction function holds in row i.
GivenKey(df, i) == Normal(df.rows[i][checkBy])
GivenKeys(df) == {GivenKey(df, i) : i \in DOMAIN df.rows}

\* The first row of the new dataset, as given, that holds key k.
FirstNewRow(k) ==
    new_dataset.rows[CHOOSE j \in DOMAIN new_dataset.rows :
        /\ GivenKey(new_dataset, j) = k
        /\ \A h \in 1..(j - 1) : GivenKey(new_dataset, h) # k]

\* Store row i has its key in the new dataset and differs in some column,
\* after null normalisation, from the first new row with that key.
StoreRowDiffers(i) ==
    /\ GivenKey(database, i) \in GivenKeys(new_dataset)
    /\ \E c \in DOMAIN database.rows[i] :
          ~PyEq(Normal(FirstNewRow(GivenKey(database, i))[c]),
                Normal(database.rows[i][c]))

\* The update of store row i: the first new row's values, normalised, without
\* UNIQUE_KEY, with the store row's identity.
ExpectedUpdate(i) ==
    LET new_row == NormalRow(FirstNewRow(GivenKey(database, i))) IN
    [c \in (DOMAIN new_row \ {checkBy}) \cup {"ROW_ID", "ROW_VERSION"} |->
        IF c = "ROW_ID" THEN Identity(i)[1]
        ELSE IF c = "ROW_VERSION" THEN Identity(i)[2]
        ELSE new_row[c]]

Returned(function) == pc = "returned" /\ calls = <<function>>

\* C6: _update_rows emits an update for a store row iff the row's key occurs
\* in the new dataset and some column differs, after null normalisation, from
\* the first new row with that key; the emitted row holds that new row's
\* values (missing as empty string) without UNIQUE_KEY; the emitted rows
\* follow the store's order; with no differing row the result is empty.
C6_UpdateExtraction ==
    Returned("_update_rows") =>
        LET differing == Ascending({i \in DOMAIN database.rows : StoreRowDiffers(i)})
        IN  IF differing = <<>> THEN updaterows = EmptyFrame
            ELSE /\ checkBy \notin Range(updaterows.columns)
                 /\ Len(updaterows.rows) = Len(differing)
                 /\ \A n \in DOMAIN differing :
                       updaterows.rows[n] = ExpectedUpdate(differing[n])

\* Two store rows are updated, and a value missing in the new dataset is
\* emitted as the empty string.
C6_Witness ==
    /\ Returned("_update_rows")
    /\ Len(updaterows.rows) = 2
    /\ \E i \in DOMAIN new_dataset.rows : isnull(new_dataset.rows[i]["foo"])
    /\ \E n \in DOMAIN updaterows.rows : updaterows.rows[n]["foo"] = EmptyStr

\* C7: _append_rows returns exactly the new-dataset rows whose key occurs in
\* no store row, rows sharing a key included, in the new dataset's order,
\* without the key column, numbered 0..n-1; with no such row it returns an
\* empty result and raises nothing.
C7_AppendExtraction ==
    Returned("_append_rows") =>
        LET absent(r) == Normal(r[checkBy]) \notin GivenKeys(database)
            strip(r) == [c \in DOMAIN r \ {checkBy} |-> Normal(r[c])]
            expected == SelectSeq(new_dataset.rows, absent)
        IN  /\ ~Raised(appendrows)
            /\ appendrows.columns = SelectSeq(new_dataset.columns, LAMBDA c : c # checkBy)
            /\ appendrows.rows = [n \in DOMAIN expected |-> strip(expected[n])]
            /\ appendrows.index = [n \in DOMAIN expected |-> n - 1]

\* The first new row has a key of the store and the second has not: the
\* second is the only appended row, renumbered 0.
C7_Witness ==
    /\ Returned("_append_rows")
    /\ Len(new_dataset.rows) = 2 /\ Len(database.rows) >= 1
    /\ GivenKey(new_dataset, 1) \in GivenKeys(database)
    /\ Len(appendrows.rows) = 1
    /\ appendrows.index = <<0>>

\* C8: _delete_rows returns one (row id, row version) pair for each store row
\* whose key occurs in no new-dataset row, in the store's order, the pair
\* being the two parts of that row's locator; when every store key occurs
\* in the new dataset the result is empty.
C8_DeleteExtraction ==
    Returned("_delete_rows") =>
        LET absent == Ascending({i \in DOMAIN database.rows :
                          GivenKey(database, i) \notin GivenKeys(new_dataset)})
        IN  IF absent = <<>> THEN deleterows = EmptyFrame
            ELSE /\ Len(deleterows.rows) = Len(absent)
                 /\ \A n \in DOMAIN absent :
                       <<deleterows.rows[n][0], deleterows.rows[n][1]>>
                           = Identity(absent[n])

\* The second store row is deleted and the first is kept.
C8_Witness ==
    /\ Returned("_delete_rows")
    /\ Len(database.rows) = 2
    /\ GivenKey(database, 1) \in GivenKeys(new_dataset)
    /\ Len(deleterows.rows) = 1
    /\ <<deleterows.rows[1][0], deleterows.rows[1][1]>> = <<StrVal(<<"2">>), StrVal(<<"3">>)>>

\* C9: with toDelete=False the batch holds no delete pair, whatever the
\* store and the new dataset; _delete_rows is called only with toDelete=True.
C9_DeleteGating ==
    /\ (ExtractionDone /\ ~toDelete) => empty(deleterows)
    /\ "_delete_rows" \in Range(calls) => toDelete

\* toDelete=False, and a store row's key is absent from the new dataset.
C9_Witness ==
    /\ ExtractionDone /\ ~toDelete
    /\ KeysOf(db) \ KeysOf(nd) # {}

\* Some key of the store occurs more than once in the new dataset.
NewHasDuplicateOf(k) ==
    Cardinality({j \in DOMAIN nd.rows : nd.rows[j][checkBy].s = k}) > 1

\* The invocation raised before it opened the file, that is in lines 512-534.
RaisedBeforeFile == pc = "error" /\ buffer = <<>>

\* C10: when a key of the store occurs several times in the new dataset, the
\* update step raises nothing, an updated row of that key holds the values of
\* the first occurrence, and there is at most one updated row per store row
\* of that key (later occurrences add none).
C10_FirstOccurrenceWins ==
    \A k \in KeysOf(db) :
        ("_update_rows" \in Range(calls) /\ NewHasDuplicateOf(k)) =>
            /\ ~RaisedBeforeFile
            /\ ~Raised(updaterows)
            /\ \A u \in DOMAIN updaterows.rows :
                  RowKey(updaterows.rows[u]) = k =>
                      \A c \in Range(database.columns) :
                          updaterows.rows[u][c] = nd.rows[FirstWithKey(nd, k)][c]
            /\ Cardinality({u \in DOMAIN updaterows.rows : RowKey(updaterows.rows[u]) = k})
                   <= Cardinality({i \in DOMAIN db.rows : db.rows[i][checkBy].s = k})

\* The store holds one row; the new dataset holds its key twice, first with
\* another value and then with the store's value; the row is updated.
C10_Witness ==
    /\ ExtractionDone
    /\ Len(db.rows) = 1 /\ Len(nd.rows) = 2
    /\ nd.rows[1][checkBy] = db.rows[1][checkBy]
    /\ nd.rows[2] = db.rows[1]
    /\ Len(updaterows.rows) = 1

\* ---------------------------------------------------------------- C11

\* The new dataset lacks a column of the store, or a key column is absent
\* from the store or from the new dataset.
SchemaMismatch ==
    \/ ~(Range(database.columns) \subseteq Range(new_dataset.columns))
    \/ ~(Range(uniqueKeyCols) \subseteq Range(database.columns))
    \/ ~(Range(uniqueKeyCols) \subseteq Range(new_dataset.columns))

\* Nothing of a batch exists: no extraction has run, no frame of rows was
\* built, nothing was written to the file and nothing was stored.
NoBatch ==
    /\ calls = <<>>
    /\ appendrows = EmptyFrame /\ updaterows = EmptyFrame
    /\ deleterows = EmptyFrame /\ allupdates = EmptyFrame
    /\ buffer = <<>> /\ file = <<>> /\ stored = <<>>

\* C11: when the new dataset lacks a column of the store, or a named key
\* column is absent from either row-set, updateDatabase ends with an error
\* at its first step, before any of the append, update and delete
\* extractions has run, and no batch is produced.
C11_FailFast ==
    (SchemaMismatch /\ pc # "call") => (pc = "error" /\ NoBatch)

C11_Witness ==
    /\ pc = "error"
    /\ ~(Range(database.columns) \subseteq Range(new_dataset.columns))
    /\ Range(uniqueKeyCols) \subseteq Range(database.columns)
    /\ Len(new_dataset.rows) > 0 /\ Len(database.rows) > 0

\* ---------------------------------------------------------------- C12

\* The batch holds a row to write or a pair to delete.
NonEmptyBatch == ~empty(allupdates) \/ ~empty(deleterows)

\* C12 as stated: updateDatabase only computes the batch and performs no
\* write to the backing store, so the store's rows are never touched by it.
C12_NoStoreWrite == stored = <<>>

\* C12: updateDatabase writes the batch to toUpdateAll.csv and, when it
\* completes with a non-empty batch, itself hands that file to syn.store,
\* once; before its last step, and when the batch is empty, the store has
\* received nothing from it.
C12_StoresItsOwnBatch ==
    IF pc = "done" /\ NonEmptyBatch
    THEN /\ stored = <<[by |-> "updateDatabase", text |-> file]>>
         /\ file = buffer
         /\ Len(file) > Len(HeaderLine(columnOrder))
    ELSE stored = <<>>

C12_Witness ==
    /\ pc = "done"
    /\ Len(stored) = 1
    /\ ~empty(updaterows) /\ ~empty(deleterows)

\* ---------------------------------------------------------------- C13

\* C13: no step of updateDatabase changes the row-sets the caller passed in:
\* they get no UNIQUE_KEY column, their missing values stay missing and
\* their key columns keep their types; the function works on its own frames.
C13_CallerFramesUntouched ==
    [][database' = database /\ new_dataset' = new_dataset]_vars

\* The function's own frames were filled, coerced and keyed while the
\* caller's still hold a missing value, a number in a key column and no
\* UNIQUE_KEY column.
C13_Witness ==
    /\ pc = "done"
    /\ uniqueKeyCols = <<"foo", "test">>
    /\ \E i \in DOMAIN database.rows :
          /\ isnull(database.rows[i]["test"])
          /\ database.rows[i]["foo"] = IntVal(1)
          /\ db.rows[i]["test"] = EmptyStr
          /\ db.rows[i]["foo"] = StrVal(<<"1">>)
    /\ \E i \in DOMAIN new_dataset.rows :
          /\ isnull(new_dataset.rows[i]["test"])
          /\ new_dataset.rows[i]["foo"] = IntVal(1)
          /\ nd.rows[i]["test"] = EmptyStr
    /\ checkBy \notin Range(database.columns) \cup Range(new_dataset.columns)
    /\ db # database /\ nd # new_dataset

\* ---------------------------------------------------------------- C14

\* The with block has ended normally: the file is complete.
FileWritten == pc \in {"written", "done"}

\* The lines of the file, each without its line end.
FileLines ==
    LET parts == pysplit(file, "\n") IN SubSeq(parts, 1, Len(parts) - 1)

\* The data lines of the file (those after the header), each as its fields.
WrittenFields ==
    [i \in 1..(Len(FileLines) - 1) |-> pysplit(FileLines[i + 1], ",")]

\* An appended row as a line of the batch: no ROW_ID, no ROW_VERSION, then
\* its values in the store's columns.
AppendedFields ==
    [i \in DOMAIN appendrows.rows |->
        <<<<>>, <<>>>> \o [k \in DOMAIN database.columns |->
                             CsvCell(appendrows.rows[i][database.columns[k]])]]

UpdatedFields ==
    [i \in DOMAIN updaterows.rows |->
        [k \in DOMAIN columnOrder |-> CsvCell(updaterows.rows[i][columnOrder[k]])]]

DeletedFields ==
    [i \in DOMAIN deleterows.rows |->
        <<deleterows.rows[i][0].s, deleterows.rows[i][1].s>>]

\* C14 as stated: the batch lists the delete identity pairs first, then the
\* appended rows, then the updated rows.
C14_DeletesFirst ==
    FileWritten => WrittenFields = DeletedFields \o AppendedFields \o UpdatedFields

\* C14: after its header line the batch lists the appended rows first, then
\* the updated rows, and the delete identity pairs last; a file left by an
\* invocation that raised holds no data line.
C14_DeletesLast ==
    /\ FileWritten =>
          /\ FileLines[1] \o <<"\n">> = HeaderLine(columnOrder)
          /\ WrittenFields = AppendedFields \o UpdatedFields \o DeletedFields
    /\ pc = "error" => file \in {<<>>, HeaderLine(columnOrder)}

C14_Witness ==
    /\ pc = "done"
    /\ ~empty(appendrows) /\ ~empty(updaterows) /\ ~empty(deleterows)
    /\ Len(WrittenFields) >= 3

\* ---------------------------------------------------------------- C15

\* The header of the file, as its fields.
HeaderFields == pysplit(FileLines[1], ",")

\* The lines of the appended and updated rows, as their fields.
WrittenRowFields == SubSeq(WrittenFields, 1, Len(allupdates.rows))

\* C15: the header of the batch names ROW_ID, ROW_VERSION and then the
\* store's columns in the store's order; every written row has one field per
\* header column, and after its two identity fields it carries the values a
\* new-dataset row holds in the store's columns, in the store's order,
\* whatever the column order of the new dataset; the name and the values of
\* a column only the new dataset has appear nowhere in the batch.
C15_ColumnAlignment ==
    FileWritten =>
        /\ HeaderFields = <<<<"ROW_ID">>, <<"ROW_VERSION">>>>
               \o [k \in DOMAIN database.columns |-> <<database.columns[k]>>]
        /\ \A j \in DOMAIN WrittenRowFields :
              /\ Len(WrittenRowFields[j]) = 2 + Len(database.columns)
              /\ \E i \in DOMAIN new_dataset.rows :
                    \A k \in DOMAIN database.columns :
                        WrittenRowFields[j][2 + k]
                            = CsvCell(new_dataset.rows[i][database.columns[k]])
        /\ "extra" \notin Range(file)
        /\ \A v \in CellChoices("extra") : Range(v.s) \cap Range(file) = {}

\* A row was written from a new dataset whose columns come in another order
\* and with one column more than the store's.
C15_Witness ==
    /\ FileWritten
    /\ new_dataset.columns = <<"foo", "extra", "test">>
    /\ Len(WrittenRowFields) > 0
    /\ \E i \in DOMAIN new_dataset.rows :
          new_dataset.rows[i]["test"] = StrVal(<<"a">>)

\* ---------------------------------------------------------------- C16

\* The invocation has ended, normally or with an error.
Terminal == pc \in {"done", "error"}

\* C16: an invocation whose appends, updates and deletes are all empty ends
\* without error and without a store write; an invocation in which one of
\* the three is non-empty ends with the store write issued exactly once.
C16_StoreOnceIffNonEmpty ==
    Terminal =>
        IF empty(appendrows) /\ empty(updaterows) /\ empty(deleterows)
        THEN pc = "done" /\ stored = <<>>
        ELSE Len(stored) = 1

\* ---------------------------------------------------------------- C17

\* C17: an invocation that has ended with an error, whether on a missing
\* column, on a missing key column or while writing the file, has issued no
\* store write.
C17_NoStoreOnError == pc = "error" => stored = <<>>

\* The invocation raised after its batch was computed and the file opened.
C17_Witness ==
    /\ pc = "error"
    /\ ~empty(appendrows)
    /\ calls # <<>>
    /\ file = HeaderLine(columnOrder)

\* ---------------------------------------------------------------- C18

\* What an invocation wrote into its own updateFile: the header and the rows
\* it computed.
OwnText(invocation) ==
    IF invocation = "peer" THEN peer.buffer ELSE buffer

\* C18: when two invocations overlap in time, the file each of them hands to
\* syn.store holds the header and the rows that this invocation computed,
\* and nothing of the other invocation.
C18_SubmitsOwnBatch ==
    \A k \in DOMAIN stored : stored[k].text = OwnText(stored[k].by)

\* ---------------------------------------------------------------- C19

\* A value as the batch is to show it: a number of integral value without a
\* decimal point, anything else as it is, a missing value as nothing.
Rendered(v) ==
    IF isnull(v) THEN <<>>
    ELSE IF v.t = "float" /\ Len(v.s) > 2
            /\ SubSeq(v.s, Len(v.s) - 1, Len(v.s)) = <<".", "0">>
         THEN SubSeq(v.s, 1, Len(v.s) - 2)
    ELSE v.s

\* C19: in the batch every number of integral value is written without a
\* decimal point in every column position, the last column of a line and
\* the values of the delete pairs included, and text is written unchanged.
C19_IntegersWithoutDecimalPoint ==
    FileWritten =>
        WrittenFields =
            [j \in DOMAIN allupdates.rows |->
                [k \in DOMAIN columnOrder |->
                    Rendered(allupdates.rows[j][columnOrder[k]])]]
            \o [j \in DOMAIN deleterows.rows |->
                   <<Rendered(deleterows.rows[j][0]),
                     Rendered(deleterows.rows[j][1])>>]

\* ---------------------------------------------------------------- C20

\* The text of a value in a key: nothing for a missing value, else its str().
KeyText(v) == IF isnull(v) THEN <<>> ELSE v.s

\* The texts of the values a row holds in the given columns, in the order
\* given, with one space between two of them.
RECURSIVE JoinedKey(_, _)
JoinedKey(row, cols) ==
    IF Len(cols) = 0 THEN <<>>
    ELSE IF Len(cols) = 1 THEN KeyText(row[cols[1]])
    ELSE KeyText(row[cols[1]]) \o <<" ">> \o JoinedKey(row, Tail(cols))

\* updateDatabase has keyed its two frames (lines 520-523).
Keyed == checkBy \in Range(db.columns) /\ checkBy \in Range(nd.columns)

\* C20: the UNIQUE_KEY of every store row and of every new-dataset row is
\* the str() of its key column values (the empty string for a missing one)
\* in the order the key columns were given, with a single space between
\* them, and the key columns themselves hold these texts; so a row whose key
\* value is the integer 1 and a row whose key value is the string "1" get
\* the same key.
C20_KeyNormalisation ==
    Keyed =>
        /\ \A i \in DOMAIN database.rows :
              /\ db.rows[i][checkBy] = StrVal(JoinedKey(database.rows[i], uniqueKeyCols))
              /\ \A k \in DOMAIN uniqueKeyCols :
                    db.rows[i][uniqueKeyCols[k]]
                        = StrVal(KeyText(database.rows[i][uniqueKeyCols[k]]))
        /\ \A j \in DOMAIN new_dataset.rows :
              /\ nd.rows[j][checkBy] = StrVal(JoinedKey(new_dataset.rows[j], uniqueKeyCols))
              /\ \A k \in DOMAIN uniqueKeyCols :
                    nd.rows[j][uniqueKeyCols[k]]
                        = StrVal(KeyText(new_dataset.rows[j][uniqueKeyCols[k]]))
        /\ \A i \in DOMAIN database.rows, j \in DOMAIN new_dataset.rows :
              (\A k \in DOMAIN uniqueKeyCols :
                    KeyText(database.rows[i][uniqueKeyCols[k]])
                        = KeyText(new_dataset.rows[j][uniqueKeyCols[k]]))
              => db.rows[i][checkBy] = nd.rows[j][checkBy]

\* A store row keyed by the integer 1 and a new row keyed by the string "1",
\* both beside a missing second key value, came out with the key "1 " and so
\* as the same row: nothing to append and nothing to delete.
C20_Witness ==
    /\ pc = "done"
    /\ toDelete
    /\ uniqueKeyCols = <<"foo", "test">>
    /\ Len(database.rows) = 1 /\ Len(new_dataset.rows) = 1
    /\ database.rows[1]["foo"] = IntVal(1)
    /\ new_dataset.rows[1]["foo"] = StrVal(<<"1">>)
    /\ isnull(database.rows[1]["test"]) /\ isnull(new_dataset.rows[1]["test"])
    /\ db.rows[1][checkBy] = StrVal(<<"1", " ">>)
    /\ nd.rows[1][checkBy] = StrVal(<<"1", " ">>)
    /\ empty(appendrows) /\ empty(deleterows)

\* ---------------------------------------------------------------- C21

\* Both arguments of the diff helpers are frames that hold the key column.
ValidArguments ==
    /\ "columns" \in DOMAIN nd /\ checkBy \in Range(nd.columns)
    /\ "columns" \in DOMAIN db /\ checkBy \in Range(db.columns)

\* The positions of the rows of left whose key value is one of right's.
SharedPositions ==
    {i \in DOMAIN nd.rows :
        \E j \in DOMAIN db.rows : db.rows[j][checkBy] = nd.rows[i][checkBy]}

\* df holds exactly the rows of left at the given positions, each under its
\* index label, in left's order, with left's columns.
IsSelection(df, positions) ==
    /\ df.columns = nd.columns
    /\ Len(df.rows) = Cardinality(positions)
    /\ {df.index[k] + 1 : k \in DOMAIN df.index} = positions
    /\ \A k \in DOMAIN df.rows : df.rows[k] = nd.rows[df.index[k] + 1]
    /\ \A k \in 1..(Len(df.index) - 1) : df.index[k] < df.index[k + 1]

\* C21: on two frames with the key column, _get_left_union_df returns
\* exactly the rows of left whose key value occurs among right's key values,
\* in left's order, so nothing when no key is shared; and once
\* _get_left_diff_df has been called on the same frames too, every row of
\* left is in exactly one of the two results.
C21_LeftUnionPartition ==
    (ValidArguments /\ "_get_left_union_df" \in Range(calls)) =>
        /\ ~Raised(updaterows)
        /\ IsSelection(updaterows, SharedPositions)
        /\ (SharedPositions = {} => empty(updaterows))
        /\ "_get_left_diff_df" \in Range(calls) =>
              /\ ~Raised(appendrows)
              /\ IsSelection(appendrows, DOMAIN nd.rows \ SharedPositions)
              /\ Range(appendrows.index) \cap Range(updaterows.index) = {}
              /\ Range(appendrows.index) \cup Range(updaterows.index)
                     = Range(nd.index)

\* Of two rows of left, the second alone has its key in right: the union
\* holds it and the diff holds the first.
C21_Witness ==
    /\ ValidArguments
    /\ Len(calls) = 2
    /\ Len(nd.rows) = 2
    /\ SharedPositions = {2}
    /\ updaterows.index = <<1>>
    /\ appendrows.index = <<0>>

\* ---------------------------------------------------------------- C22

\* The results of the diff helpers called so far.
DiffResults ==
    (IF "_get_left_diff_df" \in Range(calls) THEN {appendrows} ELSE {})
    \cup (IF "_get_left_union_df" \in Range(calls) THEN {updaterows} ELSE {})

\* C22 as stated: whenever either argument is not a data frame or lacks the
\* key column, both helpers raise an error that names the column, and
\* return nothing.
C22_ErrorNamesColumn ==
    ~ValidArguments =>
        \A r \in DiffResults : Raised(r) /\ r.names = {checkBy}

\* An argument is no frame; it is a frame without the key column.
NoFrame(df) == "columns" \notin DOMAIN df
Keyless(df) == ~NoFrame(df) /\ checkBy \notin Range(df.columns)

\* C22: whenever either argument is not a data frame or lacks the key
\* column (left alone, right alone, or both), both helpers raise ValueError
\* and return nothing; the error is that of the first invalid argument, left
\* before right: it names the key column when that argument is a frame
\* without it, and says "Must pass in pandas dataframes", naming no column,
\* when that argument is no frame.  On two valid arguments neither raises.
C22_Validation ==
    \A r \in DiffResults :
        LET first == IF NoFrame(nd) \/ Keyless(nd) THEN nd ELSE db IN
        IF ValidArguments THEN ~Raised(r)
        ELSE /\ Raised(r)
             /\ r.raise = "ValueError"
             /\ (Keyless(first) => r.names = {checkBy})
             /\ (NoFrame(first) =>
                    /\ r.names = {}
                    /\ r.message = "Must pass in pandas dataframes")

\* Left is valid and holds rows, right alone is invalid, and both helpers
\* raised.
C22_Witness ==
    /\ Len(calls) = 2
    /\ ~NoFrame(nd) /\ checkBy \in Range(nd.columns) /\ Len(nd.rows) > 0
    /\ Keyless(db)
    /\ Raised(appendrows) /\ Raised(updaterows)
    /\ updaterows.names = {checkBy}

\* ---------------------------------------------------------------- C23

\* C23: after _append_rows, _update_rows or _delete_rows has returned, the
\* two frames passed in hold the same values as before the call, missing
\* values included.
C23_ArgumentsUnchanged ==
    pc = "returned" => (db = database /\ nd = new_dataset)

\* ---------------------------------------------------------------- C24

\* The positions of input_str at which a ".0" starts that a tab or a newline
\* follows immediately.
FloatEnds ==
    {i \in 1..(Len(input_str) - 2) :
        /\ input_str[i] = "." /\ input_str[i + 1] = "0"
        /\ input_str[i + 2] \in {"\t", "\n"}}

\* C24: removeStringFloat returns its argument without the characters of
\* every ".0" that a tab or a newline follows immediately, every other
\* character in place and in order, the tab or newline after a removed ".0"
\* included; an argument without such a ".0" comes back unchanged.
C24_RemoveStringFloat ==
    pc = "string returned" =>
        /\ Len(output) = Len(input_str) - 2 * Cardinality(FloatEnds)
        /\ output = [k \in 1..Len(output) |-> input_str[Positions(
                         [j \in DOMAIN input_str |->
                             j \notin FloatEnds /\ (j - 1) \notin FloatEnds])[k]]]
        /\ (FloatEnds = {} => output = input_str)

\* A string holding ".0" twice, once before a tab or newline and once not,
\* lost the first alone.
C24_Witness ==
    /\ pc = "string returned"
    /\ Cardinality(FloatEnds) = 1
    /\ Len(input_str) = 5
    /\ SubSeq(output, 1, 2) = <<".", "0">>
    /\ output[3] \in {"\t", "\n"}

\* ---------------------------------------------------------------- C25

\* Both runs of updateData have returned or raised.
BothOver == pc \in {"done", "error"} /\ peer.pc \in {"done", "error"}

\* The keys that one row of the new data carries and no row read by the
\* first reader did.
NewKeys ==
    {k \in {new_dataset.rows[i].test.s : i \in DOMAIN new_dataset.rows} :
        /\ Cardinality({i \in DOMAIN new_dataset.rows :
                            new_dataset.rows[i].test.s = k}) = 1
        /\ \A i \in DOMAIN database.rows : database.rows[i].test.s # k
        /\ \A i \in DOMAIN peer.database.rows : peer.database.rows[i].test.s # k}

\* The rows the other run found to append: those of its batch without ROW_ID.
PeerAppended ==
    {i \in DOMAIN peer.allupdates.rows :
        \/ "ROW_ID" \notin Range(peer.allupdates.columns)
        \/ isnull(peer.allupdates.rows[i]["ROW_ID"])}

\* C25: when both runs read the table before either wrote, both append the
\* row of a key new to the table and the table ends with two rows of that
\* key; when the second run read after the first run's write was applied, the
\* second run appends nothing.
C25_RaceAppendsTwice ==
    (BothOver /\ Len(reads) = 2) =>
        /\ (reads[1].writes = 0 /\ reads[2].writes = 0) =>
              \A k \in NewKeys :
                 Cardinality({i \in DOMAIN table.rows : table.rows[i].test.s = k}) = 2
        /\ (reads[2].writes = 1 /\ stored[1].by = reads[1].by) =>
              IF reads[2].by = "peer" THEN PeerAppended = {}
              ELSE empty(appendrows)

\* ---------------------------------------------------------------- C26

\* The new-dataset rows that share a UNIQUE_KEY agree in every column.
NewRowsAgreeOnKey ==
    \A i, j \in DOMAIN nd.rows :
        nd.rows[i][checkBy] = nd.rows[j][checkBy]
            => \A c \in Range(nd.columns) : PyEq(nd.rows[i][c], nd.rows[j][c])

EmptyBatch == empty(appendrows) /\ empty(updaterows) /\ empty(deleterows)

KeyedRows == Range(db.rows) \cup Range(nd.rows)

\* C27: two rows, of the same frame or one of each, get the same UNIQUE_KEY
\* if and only if they agree on every key column after str().
C27_KeyIsTheTuple ==
    pc \notin {"call", "error"} =>
        \A r1, r2 \in KeyedRows :
            r1[checkBy] = r2[checkBy]
                <=> \A k \in DOMAIN uniqueKeyCols :
                        pystr(r1[uniqueKeyCols[k]]) = pystr(r2[uniqueKeyCols[k]])

\* ---------------------------------------------------------------- C28

\* C28: an invocation that finds a row to append and no row to update ends
\* without error, has written the header ROW_ID, ROW_VERSION, <store columns>
\* and under it the appended rows, and has issued the store write.
C28_AppendOnlyBatchStored ==
    (Terminal /\ ~empty(appendrows) /\ empty(updaterows))
        => /\ pc = "done"
           /\ Len(stored) = 1
           /\ Len(FileLines) > Len(appendrows.rows)
           /\ FileLines[1] \o <<"\n">> = HeaderLine(columnOrder)
           /\ \A i \in DOMAIN appendrows.rows :
                 WrittenFields[i] =
                     <<<<>>, <<>>>> \o [k \in DOMAIN database.columns |->
                         CsvCell(appendrows.rows[i][database.columns[k]])]

\* ---------------------------------------------------------------- C29

\* The (ROW_ID, ROW_VERSION) of the updated row at position i, and of the
\* delete pair at position j.
UpdatedIdentity(i) == <<updaterows.rows[i]["ROW_ID"], updaterows.rows[i]["ROW_VERSION"]>>
DeletePair(j) == <<deleterows.rows[j][0], deleterows.rows[j][1]>>

LocatorsDistinct ==
    \A i, j \in DOMAIN database.index :
        database.index[i] = database.index[j] => i = j

\* C29: when the store's locators are pairwise distinct, no (ROW_ID,
\* ROW_VERSION) occurs in two updated rows, none in two delete pairs, and
\* none in an updated row and a delete pair.
C29_TouchedAtMostOnce ==
    (ExtractionDone /\ LocatorsDistinct)
        => /\ \A i, j \in DOMAIN updaterows.rows :
                 UpdatedIdentity(i) = UpdatedIdentity(j) => i = j
           /\ \A i, j \in DOMAIN deleterows.rows :
                 DeletePair(i) = DeletePair(j) => i = j
           /\ \A i \in DOMAIN updaterows.rows, j \in DOMAIN deleterows.rows :
                 UpdatedIdentity(i) # DeletePair(j)

\* One batch updates a store row and deletes another.
C29_Witness ==
    /\ ExtractionDone /\ LocatorsDistinct
    /\ Len(database.rows) = 2
    /\ Len(updaterows.rows) = 1
    /\ Len(deleterows.rows) = 1
    /\ UpdatedIdentity(1) # DeletePair(1)

\* ---------------------------------------------------------------- C30

\* The call named was made, and the place of its first entry in the calls.
Called(name) == \E i \in DOMAIN validation.calls : validation.calls[i] = name
CallAt(name) == CHOOSE i \in DOMAIN validation.calls : validation.calls[i] = name

====
